---- MODULE Spec2Model ----
(***************************************************************************)
(* Model of CompleteTimelinePipeline (src/timeline_complete_public.py):    *)
(* segment parsing, coordinate / timestamp / duration helpers, the two     *)
(* cached geocoding lookups and resolve_addresses, trip association,       *)
(* odometer reconstruction and the write_final_report filter pipeline.     *)
(*                                                                         *)
(* Conventions.                                                            *)
(*  - A Python string is a sequence of one-character strings.              *)
(*  - A Python dict that is mutated in place (a trip) lives in a heap      *)
(*    (function from object id to record); lists of trips are sequences    *)
(*    of ids, so that aliasing between the stage lists is kept.            *)
(*  - A key that may be absent from a dict is a BOOLEAN "has" field next   *)
(*    to the value field.                                                  *)
(***************************************************************************)
EXTENDS Integers, Sequences, FiniteSets, TLC

VARIABLES
    pc,             \* position of the modelled call: "start" / "done" / "raised"
    latlng_str,     \* argument of parse_latlng_string
    latlng_result,  \* its return value, [lat_none, lat, lng_none, lng]
    start_str,      \* segment.get('startTime')
    end_str,        \* segment.get('endTime')
    start_time,     \* record['start_time']
    end_time,       \* record['end_time']
    duration_minutes, \* record['duration_minutes']
    segments,       \* data['semanticSegments']
    records,        \* the list returned by parse_timeline_json
    assoc_records,  \* argument `records` of associate_distances_with_addresses
    sorted_records, \* its local sorted_records
    all_vehicle_trips, \* its result
    heap,           \* the trip dicts, by object id
    trips,          \* argument trips / report_data: the list of trip ids
    end_date,       \* argument end_date (a day number)
    end_odometer,   \* argument end_odometer
    stages,         \* write_final_report: the list each stage produced
    rows,           \* write_final_report: the rows of the report
    sheet,          \* the storage target: its content and the calls made
    report_return,  \* what write_final_report returned to its caller
    geocode_cache,  \* self.geocode_cache: entries [key, value]
    reverse_geocode_cache, \* self.reverse_geocode_cache: entries [key, value]
    requests,       \* the requests sent to the geocoding service, in order
    calls,          \* number of lookup calls made on the instance
    geocode_result, \* return value of the last lookup call
    resolve_records, \* argument `records` of resolve_addresses (changed in place)
    resolve_input,  \* the records as they were passed to resolve_addresses
    resolve_activities, \* argument resolve_activities
    outcomes,       \* what the service does with the request of each lookup
    timeline_tab,   \* the non-empty cells of the 'Timeline Data' tab
    tab_calls,      \* the storage calls of the last write_to_sheet, in order
    tab_rows,       \* the rows the last write_to_sheet built
    writes,         \* number of write_to_sheet calls made
    duration_cell,  \* record['duration_minutes'] as read from the sheet
    duration_str,   \* the trip's 'Duration'
    total_minutes   \* return value of _extract_total_minutes

latlng_vars == <<latlng_str, latlng_result>>
times_vars  == <<start_str, end_str, start_time, end_time, duration_minutes>>
parse_vars  == <<segments, records>>
assoc_vars  == <<assoc_records, sorted_records, all_vehicle_trips>>
odo_vars    == <<heap, trips, end_date, end_odometer>>
report_vars == <<stages, rows, sheet, report_return>>
cache_vars  == <<geocode_cache, reverse_geocode_cache, requests>>
lookup_vars == <<calls, geocode_result>>
resolve_vars == <<resolve_records, resolve_input, resolve_activities, outcomes>>
geocode_vars == <<cache_vars, lookup_vars, resolve_vars>>
tab_vars    == <<timeline_tab, tab_calls, tab_rows, writes>>
duration_vars == <<duration_cell, duration_str, total_minutes>>
aux_vars    == <<tab_vars, duration_vars>>

vars == <<pc, latlng_vars, times_vars, parse_vars, assoc_vars, odo_vars,
          report_vars, geocode_vars, aux_vars>>

-----------------------------------------------------------------------------
(* Generic sequence / string helpers (Python built-ins)                    *)

\* all sequences over S of length 0..n
SeqsUpTo(S, n) == UNION {[1..k -> S] : k \in 0..n}

\* str.strip(): drop leading and trailing whitespace
RECURSIVE LStrip(_)
LStrip(s) == IF s # <<>> /\ Head(s) = " " THEN LStrip(Tail(s)) ELSE s

RECURSIVE RStrip(_)
RStrip(s) ==
    IF s # <<>> /\ s[Len(s)] = " " THEN RStrip(SubSeq(s, 1, Len(s) - 1)) ELSE s

Strip(s) == RStrip(LStrip(s))

\* str.replace(c, ''): remove every occurrence of the one-character string c
RemoveChar(s, c) == SelectSeq(s, LAMBDA x : x # c)

\* str.split(c): the pieces between the occurrences of c (always >= 1 piece)
RECURSIVE SplitAcc(_, _, _, _)
SplitAcc(s, c, cur, acc) ==
    IF s = <<>> THEN Append(acc, cur)
    ELSE IF Head(s) = c THEN SplitAcc(Tail(s), c, <<>>, Append(acc, cur))
    ELSE SplitAcc(Tail(s), c, Append(cur, Head(s)), acc)

Split(s, c) == SplitAcc(s, c, <<>>, <<>>)

\* "sub in s" for strings
Contains(s, sub) ==
    \E i \in 1..(Len(s) - Len(sub) + 1) : SubSeq(s, i, i + Len(sub) - 1) = sub

-----------------------------------------------------------------------------
(* Values before a call has run; each specification exercises one part of  *)
(* the class and leaves the variables of the other parts at these values.  *)

\* (None, None)
NoNumber == [num |-> 0, scale |-> 0]
NonePair == [lat_none |-> TRUE, lat |-> NoNumber, lng_none |-> TRUE, lng |-> NoNumber]

Ts(form, aware, sec) == [form |-> form, aware |-> aware, sec |-> sec]

TsNone  == Ts("none", FALSE, 0)
TsEmpty == Ts("empty", FALSE, 0)

LatLngIdle == latlng_str = <<>> /\ latlng_result = NonePair

TimesIdle ==
    /\ start_str = TsNone /\ end_str = TsNone
    /\ start_time = TsEmpty /\ end_time = TsEmpty
    /\ duration_minutes = 0

ParseIdle == segments = <<>> /\ records = <<>>

AssocIdle ==
    assoc_records = <<>> /\ sorted_records = <<>> /\ all_vehicle_trips = <<>>

OdoIdle == heap = <<>> /\ trips = <<>> /\ end_date = 0 /\ end_odometer = 0

NoStages ==
    [ontario_trips |-> <<>>, non_excluded_trips |-> <<>>,
     non_excluded2_trips |-> <<>>, date_filtered_trips |-> <<>>,
     first_scan |-> <<>>, filtered_impossible |-> <<>>, filtered_data |-> <<>>,
     raised |-> FALSE]

\* the target holds rows written by an earlier run
PriorContent == <<[kind |-> "prior", item |-> 0, trip |-> 0, date |-> 0,
                   origin |-> <<>>, dest |-> <<>>, purpose |-> "", km |-> 0,
                   start_odometer |-> 0, end_odometer |-> 0, total |-> 0]>>

SheetIdle == [content |-> PriorContent, formatted |-> FALSE, calls |-> <<>>]

\* no call has returned yet
NotReturned == "not returned"

ReportIdle ==
    /\ stages = NoStages /\ rows = <<>> /\ sheet = SheetIdle
    /\ report_return = NotReturned

\* the 'Timeline Data' tab is new and empty
TabIdle ==
    timeline_tab = {} /\ tab_calls = <<>> /\ tab_rows = <<>> /\ writes = 0

DurationIdle ==
    duration_cell = <<>> /\ duration_str = <<>> /\ total_minutes = 0

AuxIdle == TabIdle /\ DurationIdle

\* a text the lookups return: a formatted address or name of the service, a
\* fixed text, or a coordinate pair; the unused fields are '' and 0
Text(kind, place, lat, lng) == [kind |-> kind, place |-> place, lat |-> lat, lng |-> lng]
EmptyText == Text("", "", 0, 0)

\* l.30-31: both caches start empty
GeocodeIdle ==
    /\ geocode_cache = {} /\ reverse_geocode_cache = {} /\ requests = <<>>
    /\ calls = 0 /\ geocode_result = EmptyText
    /\ resolve_records = <<>> /\ resolve_input = <<>>
    /\ resolve_activities = TRUE /\ outcomes = <<>>

-----------------------------------------------------------------------------
(* Timestamps: _parse_timestamp, _calculate_duration                       *)
(*                                                                         *)
(* A timestamp string is a record:                                         *)
(*   form "none"    the key is missing / JSON null (Python None)           *)
(*   form "empty"   ''                                                     *)
(*   form "isoT"    'YYYY-MM-DDTHH:MM:SS'  accepted by fromisoformat       *)
(*   form "isoSp"   'YYYY-MM-DD HH:MM:SS'  accepted by fromisoformat; this *)
(*                  is also the strftime('%Y-%m-%d %H:%M:%S') output form  *)
(*   form "loose"   'YYYY-M-D H:MM:SS' (not zero padded): rejected by      *)
(*                  fromisoformat                                          *)
(*   form "garbage" any other literal                                      *)
(* aware = the text carries a UTC offset (+00:00); sec = the wall-clock     *)
(* instant in seconds from the start of the modelled period.               *)

TimeSecs == {0, 59, 150}

TsGarbage == Ts("garbage", FALSE, 0)

RawTimestamps ==
    {TsNone, TsEmpty, TsGarbage}
    \cup {Ts("loose", FALSE, s) : s \in TimeSecs}
    \cup {Ts(f, a, s) : f \in {"isoT", "isoSp"}, a \in BOOLEAN, s \in TimeSecs}

\* "not timestamp_str": None and '' are falsy
Falsy(ts) == ts.form \in {"none", "empty"}

\* datetime.fromisoformat(ts) returns (does not raise)
IsIso(ts) == ts.form \in {"isoT", "isoSp"}

\* the strings strftime('%Y-%m-%d %H:%M:%S') can produce
IsFormatted(ts) == ts.form = "isoSp" /\ ~ts.aware

\* Mutant: a failed parse is replaced by a sentinel instant (second 0).
parse_timestamp_sentinel(timestamp_str) ==
    IF Falsy(timestamp_str) THEN TsEmpty
    ELSE Ts("isoSp", FALSE, IF IsIso(timestamp_str) THEN timestamp_str.sec ELSE 0)

\* l.265-273
parse_timestamp(timestamp_str) ==
    IF Falsy(timestamp_str) THEN TsEmpty
    ELSE IF IsIso(timestamp_str) THEN Ts("isoSp", FALSE, timestamp_str.sec)
    ELSE timestamp_str

\* int(x / y) for y > 0: truncation toward zero
TruncDiv(x, y) == IF x >= 0 THEN x \div y ELSE -((-x) \div y)

\* l.275-285; subtracting an offset-aware and a naive datetime raises
\* TypeError, which the bare except turns into 0.
calculate_duration(start_str_, end_str_) ==
    IF Falsy(start_str_) \/ Falsy(end_str_) THEN 0
    ELSE IF ~IsIso(start_str_) \/ ~IsIso(end_str_) THEN 0
    ELSE IF start_str_.aware # end_str_.aware THEN 0
    ELSE TruncDiv(end_str_.sec - start_str_.sec, 60)

InitTimes ==
    /\ pc = "start"
    /\ start_str \in RawTimestamps
    /\ end_str \in RawTimestamps
    /\ start_time = TsEmpty /\ end_time = TsEmpty
    /\ duration_minutes = 0
    /\ LatLngIdle
    /\ ParseIdle
    /\ AssocIdle
    /\ GeocodeIdle
    /\ OdoIdle
    /\ ReportIdle
    /\ AuxIdle

\* l.178-180 / l.209-211: the timestamp block of _parse_visit, _parse_activity
ParseTimes ==
    /\ pc = "start"
    /\ start_time' = parse_timestamp(start_str)
    /\ end_time' = parse_timestamp(end_str)
    /\ duration_minutes' = calculate_duration(start_str, end_str)
    /\ pc' = "done"
    /\ UNCHANGED <<geocode_vars, start_str, end_str, latlng_vars, parse_vars, assoc_vars,
                   odo_vars, report_vars, aux_vars>>

NextTimes == ParseTimes

SpecTimes == InitTimes /\ [][NextTimes]_vars

\* C7: a string that is not valid ISO-8601 comes back as the original
\* literal, unchanged, and is never one of the strings a successful parse
\* produces (no sentinel instant is substituted).
C7_UnparsedKeepsLiteral ==
    pc = "done" =>
        /\ (~Falsy(start_str) /\ ~IsIso(start_str)) =>
               (start_time = start_str /\ ~IsFormatted(start_time))
        /\ (~Falsy(end_str) /\ ~IsIso(end_str)) =>
               (end_time = end_str /\ ~IsFormatted(end_time))

\* a non-ISO literal went through _parse_timestamp next to a parsed one
C7_Witness ==
    /\ pc = "done"
    /\ start_str = TsGarbage /\ start_time = TsGarbage
    /\ IsIso(end_str) /\ IsFormatted(end_time)

\* C8 (as claimed): duration_minutes is non-negative whenever both
\* timestamps parse, and 0 whenever either is missing or fails to parse.
C8_DurationNonNegative ==
    pc = "done" =>
        /\ (IsIso(start_str) /\ IsIso(end_str)) => duration_minutes >= 0
        /\ (~IsIso(start_str) \/ ~IsIso(end_str)) => duration_minutes = 0

-----------------------------------------------------------------------------
(* parse_timeline_json, _parse_visit, _parse_activity, _parse_timeline_path *)
(*                                                                         *)
(* A raw segment: which of the keys 'visit', 'activity', 'timelinePath' it *)
(* has, the number of points of its timelinePath list, and its startTime / *)
(* endTime.  A record keeps the fields the later stages and the properties *)
(* read; seg is the index of the segment the record was parsed from.       *)

MaxSegments == 2
MaxPoints == 1

SegmentTimes == {Ts("isoT", FALSE, 0), Ts("isoT", FALSE, 150), TsGarbage}

Segments ==
    {[has_visit |-> v, has_activity |-> a, has_path |-> p, num_points |-> n,
      startTime |-> st, endTime |-> Ts("isoT", FALSE, 150)] :
        v \in BOOLEAN, a \in BOOLEAN, p \in BOOLEAN, n \in 0..MaxPoints,
        st \in SegmentTimes}

\* l.173-200: always returns a (non-empty, hence truthy) dict
parse_visit(segment, i) ==
    [type |-> "Visit", seg |-> i,
     start_time |-> parse_timestamp(segment.startTime),
     end_time |-> parse_timestamp(segment.endTime),
     duration_minutes |-> calculate_duration(segment.startTime, segment.endTime),
     num_points |-> 0]

\* l.202-234: always returns a dict
parse_activity(segment, i) ==
    [type |-> "Activity", seg |-> i,
     start_time |-> parse_timestamp(segment.startTime),
     end_time |-> parse_timestamp(segment.endTime),
     duration_minutes |-> calculate_duration(segment.startTime, segment.endTime),
     num_points |-> 0]

\* l.236-263: None (here <<>>) for an empty point list, else one record
parse_timeline_path(segment, i) ==
    IF ~segment.has_path \/ segment.num_points = 0 THEN <<>>
    ELSE <<[type |-> "Location Path", seg |-> i,
            start_time |-> parse_timestamp(segment.startTime),
            end_time |-> parse_timestamp(segment.endTime),
            duration_minutes |-> 0,
            num_points |-> segment.num_points]>>

\* Mutant: independent `if`s in place of the if / elif / elif chain.
parse_segment_no_elif(segment, i) ==
    (IF segment.has_visit THEN <<parse_visit(segment, i)>> ELSE <<>>)
    \o (IF segment.has_activity THEN <<parse_activity(segment, i)>> ELSE <<>>)
    \o (IF segment.has_path THEN parse_timeline_path(segment, i) ELSE <<>>)

\* l.157-168: the records appended for one segment (none or one)
parse_segment(segment, i) ==
    IF segment.has_visit THEN <<parse_visit(segment, i)>>
    ELSE IF segment.has_activity THEN <<parse_activity(segment, i)>>
    ELSE IF segment.has_path THEN parse_timeline_path(segment, i)
    ELSE <<>>

\* l.153-171: the loop over the segments
RECURSIVE parse_timeline_json(_, _, _)
parse_timeline_json(segs, i, acc) ==
    IF i > Len(segs) THEN acc
    ELSE parse_timeline_json(segs, i + 1, acc \o parse_segment(segs[i], i))

InitParse ==
    /\ pc = "start"
    /\ segments \in SeqsUpTo(Segments, MaxSegments)
    /\ records = <<>>
    /\ LatLngIdle
    /\ TimesIdle
    /\ AssocIdle
    /\ GeocodeIdle
    /\ OdoIdle
    /\ ReportIdle
    /\ AuxIdle

ParseTimelineJson ==
    /\ pc = "start"
    /\ records' = parse_timeline_json(segments, 1, <<>>)
    /\ pc' = "done"
    /\ UNCHANGED <<geocode_vars, segments, latlng_vars, times_vars, assoc_vars, odo_vars,
                   report_vars, aux_vars>>

NextParse == ParseTimelineJson

SpecParse == InitParse /\ [][NextParse]_vars

\* the shape a segment is classified as, in priority order
ShapeOf(segment) ==
    IF segment.has_visit THEN "Visit"
    ELSE IF segment.has_activity THEN "Activity"
    ELSE IF segment.has_path THEN "Location Path"
    ELSE "none"

\* C6: each segment yields exactly one record, of the highest-priority shape
\* it carries (visit, then activity, then timelinePath), or none when it has
\* no known shape or is classified as a path with zero points; the records
\* keep the order of the segments.
C6_OneRecordPerSegment ==
    pc = "done" =>
        /\ \A i \in 1..Len(segments) :
             LET mine == {k \in 1..Len(records) : records[k].seg = i}
                 shape == ShapeOf(segments[i])
                 emits == /\ shape # "none"
                          /\ ~(shape = "Location Path"
                                 /\ segments[i].num_points = 0)
             IN  /\ Cardinality(mine) = (IF emits THEN 1 ELSE 0)
                 /\ \A k \in mine : records[k].type = shape
        /\ \A k \in 1..Len(records) : records[k].seg \in 1..Len(segments)
        /\ \A k \in 1..(Len(records) - 1) : records[k].seg < records[k + 1].seg

\* a segment carrying all three shapes was parsed to a single Visit, after a
\* path segment without points that produced nothing
C6_Witness ==
    /\ pc = "done"
    /\ Len(segments) = 2
    /\ ShapeOf(segments[1]) = "Location Path" /\ segments[1].num_points = 0
    /\ segments[2].has_visit /\ segments[2].has_activity
    /\ segments[2].has_path /\ segments[2].num_points > 0
    /\ Len(records) = 1 /\ records[1].type = "Visit" /\ records[1].seg = 2

-----------------------------------------------------------------------------
(* associate_distances_with_addresses                                      *)
(*                                                                         *)
(* A record as read back from the sheet: type, activity_type, start_time,  *)
(* address (Visit) and distance_km (text of a number, or text float()      *)
(* rejects: dist_ok = FALSE).  A trip entry keeps rec, the position of its *)
(* Activity in sorted_records.                                             *)

MaxRecords == 3

SecondsPerDay == 24 * 60 * 60

AddrA == <<"a">>
AddrB == <<"b">>

AssocTimes ==
    {Ts("isoSp", FALSE, 0), Ts("isoSp", FALSE, SecondsPerDay), TsGarbage}

Rec(type, activity_type, st, address, dist_ok, distance_km) ==
    [type |-> type, activity_type |-> activity_type, start_time |-> st,
     address |-> address, dist_ok |-> dist_ok, distance_km |-> distance_km]

AssocRecords ==
    {Rec("Visit", "", st, a, FALSE, 0) : st \in AssocTimes, a \in {<<>>, AddrA, AddrB}}
    \cup {Rec("Activity", "IN_PASSENGER_VEHICLE", st, <<>>, ok, 20) :
            st \in AssocTimes, ok \in BOOLEAN}
    \cup {Rec("Activity", "WALKING", st, <<>>, TRUE, 20) : st \in AssocTimes}
    \cup {Rec("Location Path", "", st, <<>>, FALSE, 0) : st \in AssocTimes}

\* rank of a start_time string in the lexicographic order of str: '' first,
\* then the 'YYYY-MM-DD HH:MM:SS' strings by instant, then other literals
SortRank(ts) ==
    IF ts.form = "empty" THEN 0
    ELSE IF ts.form \in {"isoSp", "isoT", "loose"} THEN 1 + ts.sec
    ELSE 2 + 2 * SecondsPerDay

\* sorted(records, key=start_time): stable
RECURSIVE InsertSorted(_, _)
InsertSorted(sorted, r) ==
    IF sorted = <<>> THEN <<r>>
    ELSE IF SortRank(sorted[Len(sorted)].start_time) <= SortRank(r.start_time)
         THEN Append(sorted, r)
    ELSE Append(InsertSorted(SubSeq(sorted, 1, Len(sorted) - 1), r),
                sorted[Len(sorted)])

RECURSIVE SortByStartTime(_, _)
SortByStartTime(recs, acc) ==
    IF recs = <<>> THEN acc
    ELSE SortByStartTime(Tail(recs), InsertSorted(acc, Head(recs)))

\* l.501: the text before the first blank of start_time, as a date code:
\* a day number >= 1 when strptime('%Y-%m-%d') accepts it, 0 for '', -1 for
\* a text strptime rejects
DateOf(ts) ==
    IF ts.form \in {"isoSp", "isoT", "loose"} THEN 1 + (ts.sec \div SecondsPerDay)
    ELSE IF ts.form \in {"none", "empty"} THEN 0
    ELSE -1

\* Mutant: only the record right before the Activity is considered.
look_backward_adjacent(sorted, j) ==
    IF j < 1 THEN <<>>
    ELSE IF sorted[j].type = "Visit" THEN sorted[j].address
    ELSE <<>>

\* l.488-491: for j in range(i - 1, -1, -1)
RECURSIVE look_backward(_, _)
look_backward(sorted, j) ==
    IF j < 1 THEN <<>>
    ELSE IF sorted[j].type = "Visit" THEN sorted[j].address
    ELSE look_backward(sorted, j - 1)

\* l.494-497: for j in range(i + 1, len(sorted_records))
RECURSIVE look_forward(_, _)
look_forward(sorted, j) ==
    IF j > Len(sorted) THEN <<>>
    ELSE IF sorted[j].type = "Visit" THEN sorted[j].address
    ELSE look_forward(sorted, j + 1)

\* l.510-520
trip_entry(sorted, i) ==
    [rec |-> i,
     Date |-> DateOf(sorted[i].start_time),
     StartTime |-> sorted[i].start_time,
     StartingPoint |-> look_backward(sorted, i - 1),
     Destination |-> look_forward(sorted, i + 1),
     Purpose |-> "",
     Distance |-> IF sorted[i].dist_ok THEN sorted[i].distance_km ELSE 0,
     Activity_type |-> sorted[i].activity_type]

IsVehicleActivity(r) ==
    r.type = "Activity" /\ r.activity_type = "IN_PASSENGER_VEHICLE"

\* Mutant: an Activity without any surrounding Visit is skipped.
associate_record_drop_unbounded(sorted, i) ==
    IF IsVehicleActivity(sorted[i])
       /\ (look_backward(sorted, i - 1) # <<>> \/ look_forward(sorted, i + 1) # <<>>)
    THEN <<trip_entry(sorted, i)>>
    ELSE <<>>

\* l.480-522: the entries appended for the record at position i
associate_record(sorted, i) ==
    IF IsVehicleActivity(sorted[i]) THEN <<trip_entry(sorted, i)>> ELSE <<>>

RECURSIVE associate_loop(_, _, _)
associate_loop(sorted, i, acc) ==
    IF i > Len(sorted) THEN acc
    ELSE associate_loop(sorted, i + 1, acc \o associate_record(sorted, i))

InitAssoc ==
    /\ pc = "start"
    /\ assoc_records \in SeqsUpTo(AssocRecords, MaxRecords)
    /\ sorted_records = <<>>
    /\ all_vehicle_trips = <<>>
    /\ LatLngIdle
    /\ TimesIdle
    /\ ParseIdle
    /\ OdoIdle
    /\ ReportIdle
    /\ AuxIdle
    /\ GeocodeIdle

AssociateDistancesWithAddresses ==
    /\ pc = "start"
    /\ sorted_records' = SortByStartTime(assoc_records, <<>>)
    /\ all_vehicle_trips' = associate_loop(sorted_records', 1, <<>>)
    /\ pc' = "done"
    /\ UNCHANGED <<geocode_vars, assoc_records, latlng_vars, times_vars, parse_vars, odo_vars,
                   report_vars, aux_vars>>

NextAssoc == AssociateDistancesWithAddresses

SpecAssoc == InitAssoc /\ [][NextAssoc]_vars

VisitsBelow(i) == {j \in 1..(i - 1) : sorted_records[j].type = "Visit"}
VisitsAbove(i) ==
    {j \in (i + 1)..Len(sorted_records) : sorted_records[j].type = "Visit"}

SetMax(S) == CHOOSE x \in S : \A y \in S : y <= x
SetMin(S) == CHOOSE x \in S : \A y \in S : x <= y

\* C4: exactly one trip per IN_PASSENGER_VEHICLE Activity and none for any
\* other record, in the order of the sorted records; a vehicle Activity with
\* no Visit on either side still yields a trip, with both endpoints empty.
C4_OneTripPerVehicleActivity ==
    pc = "done" =>
        /\ \A i \in 1..Len(sorted_records) :
             LET mine == {k \in 1..Len(all_vehicle_trips) :
                             all_vehicle_trips[k].rec = i}
             IN  /\ Cardinality(mine) =
                      (IF IsVehicleActivity(sorted_records[i]) THEN 1 ELSE 0)
                 /\ (VisitsBelow(i) = {} /\ VisitsAbove(i) = {}) =>
                      \A k \in mine :
                          /\ all_vehicle_trips[k].StartingPoint = <<>>
                          /\ all_vehicle_trips[k].Destination = <<>>
        /\ \A k \in 1..Len(all_vehicle_trips) :
             all_vehicle_trips[k].rec \in 1..Len(sorted_records)
        /\ \A k \in 1..(Len(all_vehicle_trips) - 1) :
             all_vehicle_trips[k].rec < all_vehicle_trips[k + 1].rec

\* a vehicle Activity without any Visit produced a trip next to a walking
\* Activity that produced none
C4_Witness ==
    /\ pc = "done"
    /\ Len(sorted_records) = 2
    /\ \A j \in 1..2 : sorted_records[j].type = "Activity"
    /\ IsVehicleActivity(sorted_records[2])
    /\ ~IsVehicleActivity(sorted_records[1])
    /\ Len(all_vehicle_trips) = 1
    /\ all_vehicle_trips[1].StartingPoint = <<>>
    /\ all_vehicle_trips[1].Destination = <<>>

\* C5: the origin of a trip is the address of the nearest Visit before its
\* Activity and the destination that of the nearest Visit after it, other
\* records in between being skipped; without such a Visit the endpoint is ''.
C5_NearestVisits ==
    pc = "done" =>
        \A k \in 1..Len(all_vehicle_trips) :
            LET t == all_vehicle_trips[k]
                i == t.rec
            IN  /\ t.StartingPoint =
                     (IF VisitsBelow(i) = {} THEN <<>>
                      ELSE sorted_records[SetMax(VisitsBelow(i))].address)
                /\ t.Destination =
                     (IF VisitsAbove(i) = {} THEN <<>>
                      ELSE sorted_records[SetMin(VisitsAbove(i))].address)

\* [Visit A, vehicle Activity of 20 km, Visit B] gave one trip A -> B, 20 km
C5_WitnessExample ==
    /\ pc = "done"
    /\ Len(sorted_records) = 3
    /\ sorted_records[1].type = "Visit" /\ sorted_records[1].address = AddrA
    /\ IsVehicleActivity(sorted_records[2]) /\ sorted_records[2].dist_ok
    /\ sorted_records[3].type = "Visit" /\ sorted_records[3].address = AddrB
    /\ Len(all_vehicle_trips) = 1
    /\ all_vehicle_trips[1].StartingPoint = AddrA
    /\ all_vehicle_trips[1].Destination = AddrB
    /\ all_vehicle_trips[1].Distance = 20

-----------------------------------------------------------------------------
(* parse_latlng_string                                                     *)

MaxStrLen == 4

Digits == {"1", "2"}
DigitVal(c) == IF c = "1" THEN 1 ELSE 2

LatLngChars == Digits \cup {".", "-", ",", "°", " ", "x"}

\* the text float() is given, without surrounding blanks and leading sign
Unsigned(s) ==
    LET t == Strip(s) IN IF t # <<>> /\ t[1] = "-" THEN Tail(t) ELSE t

\* float(s) succeeds: optional sign, digits with at most one decimal point,
\* at least one digit
FloatOk(s) ==
    LET u == Unsigned(s)
    IN  /\ \A i \in 1..Len(u) : u[i] \in Digits \cup {"."}
        /\ Cardinality({i \in 1..Len(u) : u[i] = "."}) <= 1
        /\ \E i \in 1..Len(u) : u[i] \in Digits

RECURSIVE DecVal(_)
DecVal(t) == IF t = <<>> THEN 0
             ELSE 10 * DecVal(SubSeq(t, 1, Len(t) - 1)) + DigitVal(t[Len(t)])

\* the number float(s) returns, as num / 10^scale
FloatVal(s) ==
    LET t == Strip(s)
        u == Unsigned(s)
        dot == {i \in 1..Len(u) : u[i] = "."}
        magnitude == DecVal(RemoveChar(u, "."))
    IN  [num |-> IF t[1] = "-" THEN -magnitude ELSE magnitude,
         scale |-> IF dot = {} THEN 0 ELSE Len(u) - (CHOOSE i \in dot : TRUE)]

\* Mutant: a failure on the second component keeps the first one.
parse_latlng_string_partial(latlng_str_) ==
    LET parts == Split(RemoveChar(latlng_str_, "°"), ",")
    IN  IF ~FloatOk(parts[1]) THEN NonePair
        ELSE IF Len(parts) < 2 \/ ~FloatOk(parts[2])
             THEN [lat_none |-> FALSE, lat |-> FloatVal(parts[1]),
                   lng_none |-> TRUE, lng |-> NoNumber]
        ELSE [lat_none |-> FALSE, lat |-> FloatVal(parts[1]),
              lng_none |-> FALSE, lng |-> FloatVal(parts[2])]

\* l.128-136: the whole body is inside try/except; any failure (float() of a
\* component, IndexError on parts[1]) returns (None, None).
parse_latlng_string(latlng_str_) ==
    LET parts == Split(RemoveChar(latlng_str_, "°"), ",")
    IN  IF ~FloatOk(parts[1]) THEN NonePair
        ELSE IF Len(parts) < 2 THEN NonePair
        ELSE IF ~FloatOk(parts[2]) THEN NonePair
        ELSE [lat_none |-> FALSE, lat |-> FloatVal(parts[1]),
              lng_none |-> FALSE, lng |-> FloatVal(parts[2])]

InitLatLng ==
    /\ pc = "start"
    /\ latlng_str \in SeqsUpTo(LatLngChars, MaxStrLen)
    /\ latlng_result = NonePair
    /\ TimesIdle
    /\ ParseIdle
    /\ AssocIdle
    /\ GeocodeIdle
    /\ OdoIdle
    /\ ReportIdle
    /\ AuxIdle

ParseLatLng ==
    /\ pc = "start"
    /\ latlng_result' = parse_latlng_string(latlng_str)
    /\ pc' = "done"
    /\ UNCHANGED <<geocode_vars, latlng_str, times_vars, parse_vars, assoc_vars, odo_vars,
                   report_vars, aux_vars>>

NextLatLng == ParseLatLng

SpecLatLng == InitLatLng /\ [][NextLatLng]_vars

\* C9: parse_latlng_string returns either two numbers or (None, None): the
\* latitude is None exactly when the longitude is None, whatever the input
\* (one parseable component, no comma, empty string included).
C9_BothOrNeither ==
    pc = "done" => (latlng_result.lat_none <=> latlng_result.lng_none)

\* a string whose first component parses and whose second does not was parsed
C9_Witness ==
    /\ pc = "done"
    /\ latlng_str = <<"1", "°", ",", "x">>
    /\ latlng_result.lat_none /\ latlng_result.lng_none

-----------------------------------------------------------------------------
(* calculate_odometer_readings                                             *)
(*                                                                         *)
(* A trip dict: Date is a date code (day number >= 1 when                  *)
(* strptime('%Y-%m-%d') accepts the text, 0 for '', -1 for a text it       *)
(* rejects); Distance a number of km; has_odo tells whether the keys       *)
(* 'Start Odometer' / 'End Odometer' have been set.                        *)

MaxTrips == 3
MaxDay == 3

OdoDates == {-1, 0} \cup (1..MaxDay)
OdoDistances == {5, 20}
OdoAnchors == {0, 100}

\* 'Start Time' values: 'd t' stands for a formatted 'YYYY-MM-DD HH:MM:SS',
\* 'd ' for an unparsed literal that ends in a blank, such as '2025-01-03 '
StartTimeFormatted == <<"d", " ", "t">>
StartTimeNoTime == <<"d", " ">>

Trip(date, origin, dest, distance) ==
    [Date |-> date, StartTime |-> StartTimeFormatted,
     StartingPoint |-> origin, Destination |-> dest,
     Purpose |-> "", Distance |-> distance,
     has_odo |-> FALSE, StartOdometer |-> 0, EndOdometer |-> 0]

\* l.552-560: `if trip_date_str:` and strptime does not raise
DateParses(d) == d >= 1

\* a list in chronological order: the dates that parse never decrease
Chronological(dates) ==
    \A i, j \in DOMAIN dates :
        (i < j /\ DateParses(dates[i]) /\ DateParses(dates[j])) => dates[i] <= dates[j]

\* Mutant: trips dated on the reference date are counted as later trips.
IsBeforeStrict(trip_dt, end_dt) == trip_dt < end_dt

\* l.555
IsBefore(trip_dt, end_dt) == trip_dt <= end_dt

\* l.550-560
trips_before(h, list, end_dt) ==
    SelectSeq(list, LAMBDA id : DateParses(h[id].Date) /\ IsBefore(h[id].Date, end_dt))

trips_after(h, list, end_dt) ==
    SelectSeq(list, LAMBDA id : DateParses(h[id].Date) /\ ~IsBefore(h[id].Date, end_dt))

\* Mutant: the backward walk adds the distance.
backward_start_added(current_odometer, distance) == current_odometer + distance

\* l.567: trip['Start Odometer'] = current_odometer - distance
backward_start(current_odometer, distance) == current_odometer - distance

\* l.564-568: for trip in reversed(trips_before); returns the heap and the
\* value current_odometer is left with
RECURSIVE walk_backward(_, _, _, _)
walk_backward(h, before, k, current_odometer) ==
    IF k = 0 THEN [heap |-> h, current |-> current_odometer]
    ELSE LET id == before[k]
             distance == h[id].Distance
             h2 == [h EXCEPT ![id].EndOdometer = current_odometer,
                             ![id].StartOdometer = backward_start(current_odometer, distance),
                             ![id].has_odo = TRUE]
         IN  walk_backward(h2, before, k - 1, h2[id].StartOdometer)

\* l.572-576: for trip in trips_after
RECURSIVE walk_forward(_, _, _, _)
walk_forward(h, after, k, current_odometer) ==
    IF k > Len(after) THEN h
    ELSE LET id == after[k]
             distance == h[id].Distance
             h2 == [h EXCEPT ![id].StartOdometer = current_odometer,
                             ![id].EndOdometer = current_odometer + distance,
                             ![id].has_odo = TRUE]
         IN  walk_forward(h2, after, k + 1, h2[id].EndOdometer)

\* Mutant: the forward walk goes on from where the backward walk stopped.
forward_start_not_reset(end_odo, current_odometer) == current_odometer

\* l.571: current_odometer = end_odometer
forward_start(end_odo, current_odometer) == end_odo

\* Mutant: the trips that took part in a walk are returned.
returned_trips_walked(list, before, after) == before \o after

\* l.583: return trips
returned_trips(list, before, after) == list

\* l.527-583: the trip dicts after the call
calculate_odometer_readings(h, list, end_dt, end_odo) ==
    LET before == trips_before(h, list, end_dt)
        after == trips_after(h, list, end_dt)
        back == walk_backward(h, before, Len(before), end_odo)
    IN  walk_forward(back.heap, after, 1, forward_start(end_odo, back.current))

\* trip lists of n dicts with ids 1..n, in chronological order
TripHeaps(n, dates, bodies) ==
    {[i \in 1..n |-> [Trip(d[i], b[i].origin, b[i].dest, b[i].distance)
                          EXCEPT !.StartTime = b[i].start_time]] :
        d \in {x \in [1..n -> dates] : Chronological(x)}, b \in [1..n -> bodies]}

OdoBodies == {[origin |-> <<>>, dest |-> <<>>, distance |-> x,
               start_time |-> StartTimeFormatted] : x \in OdoDistances}

InitOdo ==
    /\ pc = "start"
    /\ \E n \in 0..MaxTrips :
          /\ heap \in TripHeaps(n, OdoDates, OdoBodies)
          /\ trips = [i \in 1..n |-> i]
    /\ end_date \in 1..MaxDay
    /\ end_odometer \in OdoAnchors
    /\ LatLngIdle
    /\ TimesIdle
    /\ ParseIdle
    /\ AssocIdle
    /\ GeocodeIdle
    /\ ReportIdle
    /\ AuxIdle

CalculateOdometerReadings ==
    /\ pc = "start"
    /\ heap' = calculate_odometer_readings(heap, trips, end_date, end_odometer)
    /\ trips' = returned_trips(trips, trips_before(heap, trips, end_date),
                               trips_after(heap, trips, end_date))
    /\ pc' = "done"
    /\ UNCHANGED <<geocode_vars, end_date, end_odometer, latlng_vars, times_vars,
                   parse_vars, assoc_vars, report_vars, aux_vars>>

NextOdo == CalculateOdometerReadings

SpecOdo == InitOdo /\ [][NextOdo]_vars

\* the trips of the list whose date parses, in list order
Dated == SelectSeq(trips, LAMBDA id : DateParses(heap[id].Date))

\* C1 (as claimed): after calculate_odometer_readings every pair of adjacent
\* trips i, i+1 of the list has End Odometer(i) = Start Odometer(i+1).
C1_AdjacentContinuity ==
    pc = "done" =>
        \A i \in 1..(Len(trips) - 1) :
            /\ heap[trips[i]].has_odo /\ heap[trips[i + 1]].has_odo
            /\ heap[trips[i]].EndOdometer = heap[trips[i + 1]].StartOdometer

\* C1 (amended): the trips whose date parses all get odometer values, and
\* every two of them that are consecutive among the trips whose date parses
\* have End Odometer(first) = Start Odometer(second).
C1_DatedContinuity ==
    pc = "done" =>
        /\ \A k \in 1..Len(Dated) : heap[Dated[k]].has_odo
        /\ \A k \in 1..(Len(Dated) - 1) :
             heap[Dated[k]].EndOdometer = heap[Dated[k + 1]].StartOdometer

\* a trip without a parseable date sits between a trip dated before the
\* reference date and one dated after it; the two dated trips join up
C1_Witness ==
    /\ pc = "done"
    /\ Len(trips) = 3
    /\ heap[1].Date < end_date /\ DateParses(heap[1].Date)
    /\ ~DateParses(heap[2].Date) /\ ~heap[2].has_odo
    /\ heap[3].Date > end_date
    /\ heap[1].EndOdometer = end_odometer
    /\ heap[3].StartOdometer = end_odometer

AnchorTrips == {i \in 1..Len(trips) : heap[trips[i]].Date = end_date}
LaterTrips == {i \in 1..Len(trips) : heap[trips[i]].Date > end_date}

\* C2: when some trip is dated on the reference date, the last such trip has
\* End Odometer equal to the reference odometer, and the first trip dated
\* after the reference date, if any, has Start Odometer equal to it.
C2_AnchorExact ==
    (pc = "done" /\ AnchorTrips # {}) =>
        /\ heap[trips[SetMax(AnchorTrips)]].has_odo
        /\ heap[trips[SetMax(AnchorTrips)]].EndOdometer = end_odometer
        /\ LaterTrips # {} =>
             /\ heap[trips[SetMin(LaterTrips)]].has_odo
             /\ heap[trips[SetMin(LaterTrips)]].StartOdometer = end_odometer

\* two trips on the reference date and one after it
C2_Witness ==
    /\ pc = "done"
    /\ Len(trips) = 3
    /\ heap[1].Date = end_date /\ heap[2].Date = end_date
    /\ heap[3].Date > end_date
    /\ heap[2].EndOdometer = end_odometer
    /\ heap[3].StartOdometer = end_odometer
    /\ heap[1].EndOdometer = end_odometer - heap[2].Distance

-----------------------------------------------------------------------------
(* write_final_report                                                      *)

\* str.lower()
UpperCase == <<"A", "B", "C", "D", "E", "F", "G", "H", "I", "J", "K", "L", "M">>
             \o <<"N", "O", "P", "Q", "R", "S", "T", "U", "V", "W", "X", "Y", "Z">>
LowerCase == <<"a", "b", "c", "d", "e", "f", "g", "h", "i", "j", "k", "l", "m">>
             \o <<"n", "o", "p", "q", "r", "s", "t", "u", "v", "w", "x", "y", "z">>

LowerChar(c) ==
    IF \E i \in 1..Len(UpperCase) : UpperCase[i] = c
    THEN LowerCase[CHOOSE i \in 1..Len(UpperCase) : UpperCase[i] = c]
    ELSE c

Lower(str) == [i \in 1..Len(str) |-> LowerChar(str[i])]

\* l.607-608
RegionOn == <<",", " ", "o", "n", " ">>   \* ', on '
RegionOntario == <<",", " ", "o", "n", "t", "a", "r", "i", "o">>   \* ', ontario'

\* l.631
excluded_cities ==
    << <<"c", "i", "t", "y", "_", "a">> >>   \* 'city_a'

\* l.664
excluded_cities_2 ==
    << <<"c", "i", "t", "y", "_", "b">> >>   \* 'city_b'

\* l.787-790
customer_site_cities ==
    << <<"T", "i", "v", "e", "r", "t", "o", "n">>,   \* 'Tiverton'
       <<"P", "o", "r", "t", " ", "E", "l", "g", "i", "n">>,   \* 'Port Elgin'
       <<"K", "i", "n", "c", "a", "r", "d", "i", "n", "e">>,   \* 'Kincardine'
       <<"c", "i", "t", "y", "4">>,   \* 'city4'
       <<"c", "i", "t", "y", "5">>,   \* 'city5'
       <<"c", "i", "t", "y", "6">>,   \* 'city6'
       <<"c", "i", "t", "y", "7">>,   \* 'city7'
       <<"c", "i", "t", "y", "8">>,   \* 'city8'
       <<"c", "i", "t", "y", "9">>,   \* 'city9'
       <<"c", "i", "t", "y", "1", "0">> >>   \* 'city10'

\* l.794-797
meeting_cities ==
    << <<"c", "i", "t", "y", "1", "1">>,   \* 'city11'
       <<"c", "i", "t", "y", "1", "2">>,   \* 'city12'
       <<"c", "i", "t", "y", "1", "3">>,   \* 'city13'
       <<"c", "i", "t", "y", "1", "4">>,   \* 'city14'
       <<"c", "i", "t", "y", "1", "5">>,   \* 'city15'
       <<"c", "i", "t", "y", "1", "6">>,   \* 'city16'
       <<"c", "i", "t", "y", "1", "7">> >>   \* 'city17'

\* l.801
delivery_cities ==
    << <<"c", "i", "t", "y", "1", "8">> >>   \* 'city18'

\* l.698-699: the excluded window 2025-01-01 .. 2025-01-05; day 1 of the
\* date codes is 2024-12-31, the day before the window opens
ExcludeStart == 2
ExcludeEnd == 6

\* l.837
MinDistance == 15

\* l.607-608, on an address already lowered
in_ontario(addr) == Contains(addr, RegionOn) \/ Contains(addr, RegionOntario)

\* Mutant: `or` in place of `and` at l.610.
region_filter_either(h, list) ==
    SelectSeq(list, LAMBDA id :
        \/ in_ontario(Lower(h[id].StartingPoint))
        \/ in_ontario(Lower(h[id].Destination)))

\* l.602-613
region_filter(h, list) ==
    SelectSeq(list, LAMBDA id :
        /\ in_ontario(Lower(h[id].StartingPoint))
        /\ in_ontario(Lower(h[id].Destination)))

\* Mutant: only the origin is tested.
is_excluded_origin_only(trip, cities) ==
    \E k \in 1..Len(cities) : Contains(Lower(trip.StartingPoint), cities[k])

\* l.638-642 / l.671-675
is_excluded(trip, cities) ==
    \E k \in 1..Len(cities) :
        \/ Contains(Lower(trip.StartingPoint), cities[k])
        \/ Contains(Lower(trip.Destination), cities[k])

\* l.633-649 / l.666-682
exclusion_filter(h, list, cities) ==
    SelectSeq(list, LAMBDA id : ~is_excluded(h[id], cities))

\* str.split(): the pieces between runs of blanks
SplitBlanks(str) == SelectSeq(Split(str, " "), LAMBDA piece : piece # <<>>)

\* l.646 / l.679 / l.708 / l.741 / l.770, the message printed for a removed
\* trip: trip.get('Start Time', '').split()[1] if ' ' in trip.get('Start
\* Time', '') else '' raises IndexError when the value has a blank and fewer
\* than two pieces
removal_message_raises(trip) ==
    Contains(trip.StartTime, <<" ">>) /\ Len(SplitBlanks(trip.StartTime)) < 2

\* l.646 / l.679 are not inside a try: the exception leaves write_final_report
exclusion_raises(h, list, cities) ==
    \E k \in 1..Len(list) :
        is_excluded(h[list[k]], cities) /\ removal_message_raises(h[list[k]])

\* l.706: exclude_start <= trip_date <= exclude_end
in_excluded_window(trip_date) ==
    ExcludeStart <= trip_date /\ trip_date <= ExcludeEnd

\* l.701-715: the message of l.708 is printed inside the try of l.704, so
\* when it raises the bare except of l.712 appends the trip to
\* date_filtered_trips
date_range_filter(h, list) ==
    SelectSeq(list, LAMBDA id :
        \/ ~(DateParses(h[id].Date) /\ in_excluded_window(h[id].Date))
        \/ removal_message_raises(h[id]))

\* Mutant: the origins are compared without strip().
NormalizedNoStrip(addr) == Lower(addr)

\* str.strip().lower()
Normalized(addr) == Lower(Strip(addr))

\* Mutant: the origin is compared with every trip kept so far.
is_impossible_any_kept(h, filtered_impossible, id) ==
    \E k \in 1..Len(filtered_impossible) :
        /\ Normalized(h[filtered_impossible[k]].StartingPoint)
             = Normalized(h[id].StartingPoint)
        /\ Normalized(h[id].StartingPoint) # <<>>

\* l.734-738 / l.763-767: prev_start == current_start and prev_start != ''
is_impossible(h, filtered_impossible, id) ==
    LET prev_start ==
            Normalized(h[filtered_impossible[Len(filtered_impossible)]].StartingPoint)
        current_start == Normalized(h[id].StartingPoint)
    IN  prev_start = current_start /\ prev_start # <<>>

\* Mutant: insert(0, trip) in place of append(trip).
keep_trip_front(filtered_impossible, id) == <<id>> \o filtered_impossible

\* l.744 / l.773: filtered_impossible.append(trip)
keep_trip(filtered_impossible, id) == Append(filtered_impossible, id)

\* l.729-744 and l.758-773 (the same scan, twice in the source)
RECURSIVE impossible_scan(_, _, _, _)
impossible_scan(h, list, i, filtered_impossible) ==
    IF i > Len(list) THEN filtered_impossible
    ELSE IF i = 1 THEN impossible_scan(h, list, 2, <<list[1]>>)
    ELSE IF is_impossible(h, filtered_impossible, list[i])
         THEN impossible_scan(h, list, i + 1, filtered_impossible)
         ELSE impossible_scan(h, list, i + 1, keep_trip(filtered_impossible, list[i]))

\* Mutant: the scan starts at the second trip of its input.
duplicate_origin_stage_skip_first(h, list) ==
    IF list = <<>> THEN <<>> ELSE impossible_scan(h, Tail(list), 1, <<>>)

\* Mutant: the stage hands its input on unchanged.
duplicate_origin_stage_bypassed(h, list) == list

\* l.753-780: the stage as a whole
duplicate_origin_stage(h, list) == impossible_scan(h, list, 1, <<>>)

\* l.741 / l.770 are not inside a try
scan_raises(h, list) ==
    \E k \in 1..Len(list) :
        /\ \A j \in 1..Len(duplicate_origin_stage(h, list)) :
              duplicate_origin_stage(h, list)[j] # list[k]
        /\ removal_message_raises(h[list[k]])

\* l.810-813 / 817-820 / 824-827: some keyword of the list, taken as it is
\* written in the list, is contained in the lowered destination or origin
any_city_in(cities, start_addr, dest_addr) ==
    \E k \in 1..Len(cities) :
        Contains(dest_addr, cities[k]) \/ Contains(start_addr, cities[k])

\* l.804-829
purpose_of(trip) ==
    LET start_addr == Lower(trip.StartingPoint)
        dest_addr == Lower(trip.Destination)
    IN  IF any_city_in(customer_site_cities, start_addr, dest_addr)
        THEN "Travel to Customer Site"
        ELSE IF any_city_in(meeting_cities, start_addr, dest_addr)
        THEN "Meeting with Customers"
        ELSE IF any_city_in(delivery_cities, start_addr, dest_addr)
        THEN "Delivery"
        ELSE ""

\* l.803-829: trip['Purpose of Trip'] = purpose for the trips of the list
assign_purposes(h, list) ==
    [id \in DOMAIN h |->
        IF \E k \in 1..Len(list) : list[k] = id
        THEN [h[id] EXCEPT !.Purpose = purpose_of(h[id])]
        ELSE h[id]]

\* Mutant: a trip of exactly the minimum distance is dropped.
meets_minimum_strict(distance) == distance > MinDistance

\* l.837: distance >= 15
meets_minimum(distance) == distance >= MinDistance

\* l.834-838
min_distance_filter(h, list) ==
    SelectSeq(list, LAMBDA id : meets_minimum(h[id].Distance))

\* Mutant: the odometer is computed on the trips the region filter keeps.
odometer_stage_after_region(h, report_data, end_dt, end_odo) ==
    calculate_odometer_readings(h, region_filter(h, report_data), end_dt, end_odo)

\* l.595
odometer_stage(h, report_data, end_dt, end_odo) ==
    calculate_odometer_readings(h, report_data, end_dt, end_odo)

\* l.597-838: the lists of the successive stages
filter_stages(h, report_data) ==
    LET ontario == region_filter(h, report_data)
        non_excluded == exclusion_filter(h, ontario, excluded_cities)
        non_excluded2 == exclusion_filter(h, non_excluded, excluded_cities_2)
        date_filtered == date_range_filter(h, non_excluded2)
        \* l.751: report_data = date_filtered_trips, not the first scan
        first == duplicate_origin_stage(h, date_filtered)
        second == duplicate_origin_stage(h, date_filtered)
    IN  [ontario_trips |-> ontario, non_excluded_trips |-> non_excluded,
         non_excluded2_trips |-> non_excluded2,
         date_filtered_trips |-> date_filtered,
         first_scan |-> first, filtered_impossible |-> second,
         filtered_data |-> min_distance_filter(h, second),
         raised |-> \/ exclusion_raises(h, ontario, excluded_cities)
                    \/ exclusion_raises(h, non_excluded, excluded_cities_2)
                    \/ scan_raises(h, date_filtered)]

RECURSIVE SumDistance(_, _)
SumDistance(h, list) ==
    IF list = <<>> THEN 0 ELSE h[Head(list)].Distance + SumDistance(h, Tail(list))

Row(kind, item, id, trip, total) ==
    [kind |-> kind, item |-> item, trip |-> id, date |-> trip.Date,
     origin |-> trip.StartingPoint, dest |-> trip.Destination,
     purpose |-> trip.Purpose, km |-> trip.Distance,
     start_odometer |-> IF trip.has_odo THEN trip.StartOdometer ELSE 0,
     end_odometer |-> IF trip.has_odo THEN trip.EndOdometer ELSE 0,
     total |-> total]

BlankTrip == Trip(0, <<>>, <<>>, 0)

\* Mutant: the summary row directly follows the last data row.
report_rows_no_blank(h, filtered_data) ==
    LET total_distance == SumDistance(h, filtered_data)
    IN  <<Row("total", 0, 0, BlankTrip, total_distance),
          Row("header", 0, 0, BlankTrip, 0)>>
        \o [i \in 1..Len(filtered_data) |->
               Row("data", i, filtered_data[i], h[filtered_data[i]], 0)]
        \o <<Row("summary", 0, 0, BlankTrip, total_distance)>>

\* l.862-903: total row, header row, one row per trip, blank row, summary
report_rows(h, filtered_data) ==
    LET total_distance == SumDistance(h, filtered_data)
    IN  <<Row("total", 0, 0, BlankTrip, total_distance),
          Row("header", 0, 0, BlankTrip, 0)>>
        \o [i \in 1..Len(filtered_data) |->
               Row("data", i, filtered_data[i], h[filtered_data[i]], 0)]
        \o <<Row("blank", 0, 0, BlankTrip, 0),
             Row("summary", 0, 0, BlankTrip, total_distance)>>

\* l.907-1110: clear, update, then the formatting batchUpdate; an HttpError
\* of any of the calls ends the try block
sheet_after(sh, new_rows, failing) ==
    IF failing = "clear" THEN [sh EXCEPT !.calls = sh.calls \o <<"clear">>]
    ELSE IF failing = "update"
    THEN [content |-> <<>>, formatted |-> FALSE,
          calls |-> sh.calls \o <<"clear", "update">>]
    ELSE IF failing = "batchUpdate"
    THEN [content |-> new_rows, formatted |-> FALSE,
          calls |-> sh.calls \o <<"clear", "update", "batchUpdate">>]
    ELSE [content |-> new_rows, formatted |-> TRUE,
          calls |-> sh.calls \o <<"clear", "update", "batchUpdate">>]

SheetFailures == {"none", "clear", "update", "batchUpdate"}

MaxReportTrips == 2

AddrTiverton == <<"T", "i", "v", "e", "r", "t", "o", "n", ",", " ", "O", "N", " ", "1">>   \* 'Tiverton, ON 1'
AddrCity4 == <<"c", "i", "t", "y", "4", ",", " ", "O", "N", " ", "2">>   \* 'city4, ON 2'
AddrCity11 == <<"c", "i", "t", "y", "1", "1", ",", " ", "O", "N", " ", "3">>   \* 'city11, ON 3'
AddrCity18 == <<"c", "i", "t", "y", "1", "8", ",", " ", "O", "n", "t", "a", "r", "i", "o">>   \* 'city18, Ontario'
AddrPlain == <<"x", ",", " ", "O", "N", " ", "4">>   \* 'x, ON 4'
AddrQuebec == <<"y", ",", " ", "Q", "C", " ", "5">>   \* 'y, QC 5'
AddrCityA == <<"C", "i", "t", "y", "_", "A", ",", " ", "O", "N", " ", "6">>   \* 'City_A, ON 6'

BodyAt(origin, dest, distance, trip_start) ==
    [origin |-> origin, dest |-> dest, distance |-> distance,
     start_time |-> trip_start]

Body(origin, dest, distance) == BodyAt(origin, dest, distance, StartTimeFormatted)

ReportBodies ==
    {Body(AddrTiverton, AddrPlain, 20), Body(AddrPlain, AddrCity4, 20),
     Body(AddrCity11, AddrCity4, 20), Body(AddrCity18, AddrCity11, 20),
     Body(AddrPlain, AddrCity18, 10), Body(AddrPlain, AddrQuebec, 20),
     Body(AddrPlain, AddrPlain, 20), Body(AddrCityA, AddrPlain, 20)}

ReportDates == {-1, 4, 7, 9}
ReportAnchorDates == {7}
ReportAnchors == {100}

InitReport ==
    /\ pc = "start"
    /\ \E n \in 0..MaxReportTrips :
          /\ heap \in TripHeaps(n, ReportDates, ReportBodies)
          /\ trips = [i \in 1..n |-> i]
    /\ end_date \in ReportAnchorDates
    /\ end_odometer \in ReportAnchors
    /\ ReportIdle
    /\ AuxIdle
    /\ LatLngIdle
    /\ TimesIdle
    /\ ParseIdle
    /\ AssocIdle
    /\ GeocodeIdle

\* l.585-1110
WriteFinalReport ==
    /\ pc = "start"
    /\ IF trips = <<>>
       THEN \* l.588-590: a message is printed, then a bare return
            /\ pc' = "done"
            /\ report_return' = "None"
            /\ UNCHANGED <<heap, stages, rows, sheet>>
       ELSE LET h1 == odometer_stage(heap, trips, end_date, end_odometer)
                st == filter_stages(h1, trips)
                h2 == assign_purposes(h1, st.filtered_impossible)
                new_rows == report_rows(h2, st.filtered_data)
            IN  IF st.raised
                THEN \* an uncaught IndexError; the odometer values are
                     \* already written to the trips
                     /\ pc' = "raised"
                     /\ heap' = h1
                     /\ UNCHANGED report_vars
                ELSE /\ pc' = "done"
                     /\ heap' = h2
                     /\ stages' = st
                     /\ rows' = new_rows
                     /\ \E failing \in SheetFailures :
                           sheet' = sheet_after(sheet, new_rows, failing)
                     \* l.1106-1110: the method ends without a return
                     \* statement, after the try or after the except
                     /\ report_return' = "None"
    /\ UNCHANGED <<geocode_vars, trips, end_date, end_odometer, latlng_vars, times_vars,
                   parse_vars, assoc_vars, aux_vars>>

NextReport == WriteFinalReport

SpecReport == InitReport /\ [][NextReport]_vars

\* position of a trip in the list passed to write_final_report
PositionOf(id) == CHOOSE i \in 1..Len(trips) : trips[i] = id

RECURSIVE SumOver(_)
SumOver(S) ==
    IF S = {} THEN 0
    ELSE LET i == CHOOSE x \in S : TRUE
         IN  heap[trips[i]].Distance + SumOver(S \ {i})

\* the dated trips at or before / after the reference date, as positions of
\* the complete list
FullBefore == {j \in 1..Len(trips) :
                  DateParses(heap[trips[j]].Date) /\ heap[trips[j]].Date <= end_date}
FullAfter == {j \in 1..Len(trips) : heap[trips[j]].Date > end_date}

\* the odometer values of a dated trip, from the distances of the complete list
ExpectedEnd(i) ==
    IF i \in FullBefore
    THEN end_odometer - SumOver({j \in FullBefore : j > i})
    ELSE end_odometer + SumOver({j \in FullAfter : j <= i})

ExpectedStart(i) == ExpectedEnd(i) - heap[trips[i]].Distance

\* C3: after write_final_report every trip still has the odometer values
\* computed on the complete list passed in (no filter or annotation stage
\* changes them), and every reported row carries those values.
C3_OdometerFromFullList ==
    (pc = "done" /\ trips # <<>>) =>
        /\ \A i \in 1..Len(trips) :
             LET t == heap[trips[i]]
             IN  /\ t.has_odo <=> DateParses(t.Date)
                 /\ t.has_odo => /\ t.EndOdometer = ExpectedEnd(i)
                                 /\ t.StartOdometer = ExpectedStart(i)
        /\ \A k \in 1..Len(stages.filtered_data) :
             LET i == PositionOf(stages.filtered_data[k])
                 row == rows[k + 2]
             IN  /\ row.kind = "data" /\ row.trip = trips[i]
                 /\ DateParses(heap[trips[i]].Date) =>
                      /\ row.end_odometer = ExpectedEnd(i)
                      /\ row.start_odometer = ExpectedStart(i)

\* the only reported trip is followed, on the same day, by a trip the region
\* filter dropped; its odometer allows for the distance of the dropped trip
C3_Witness ==
    /\ pc = "done"
    /\ Len(trips) = 2
    /\ heap[1].Date = end_date /\ heap[2].Date = end_date
    /\ stages.ontario_trips = <<1>>
    /\ stages.filtered_data = <<1>>
    /\ heap[2].Distance > 0
    /\ rows[3].end_odometer = end_odometer - heap[2].Distance

\* some keyword of the list is a substring of the origin or the destination
KeywordMatches(cities, trip) ==
    \E k \in 1..Len(cities) :
        Contains(trip.StartingPoint, cities[k]) \/ Contains(trip.Destination, cities[k])

ClaimedPurpose(trip) ==
    IF KeywordMatches(customer_site_cities, trip) THEN "Travel to Customer Site"
    ELSE IF KeywordMatches(meeting_cities, trip) THEN "Meeting with Customers"
    ELSE IF KeywordMatches(delivery_cities, trip) THEN "Delivery"
    ELSE ""

\* C10 (as claimed): the purpose of a retained trip is the label of the first
\* list, in the order customer-site, meeting, delivery, one of whose keywords
\* is a substring of the origin or destination address, and '' if none is.
C10_PurposeByPriority ==
    (pc = "done" /\ trips # <<>>) =>
        \A k \in 1..Len(stages.filtered_impossible) :
            LET t == heap[stages.filtered_impossible[k]]
            IN  t.Purpose = ClaimedPurpose(t)

-----------------------------------------------------------------------------
(* write_final_report on trips that differ in their origins: the           *)
(* duplicate-origin scan (l.753-780)                                       *)

MaxDupTrips == 3

AddrPlainPadded == <<" ", "X", ",", " ", "o", "n", " ", "4", " ">>   \* ' X, on 4 '

DupBodies ==
    {Body(AddrPlain, AddrPlain, 20), Body(AddrPlainPadded, AddrPlain, 20),
     Body(AddrCity4, AddrPlain, 20), Body(AddrQuebec, AddrPlain, 20),
     BodyAt(AddrPlain, AddrPlain, 20, StartTimeNoTime)}

DupDates == {4, 7}

InitDup ==
    /\ pc = "start"
    /\ \E n \in 0..MaxDupTrips :
          /\ heap \in TripHeaps(n, DupDates, DupBodies)
          /\ trips = [i \in 1..n |-> i]
    /\ end_date \in ReportAnchorDates
    /\ end_odometer \in ReportAnchors
    /\ ReportIdle
    /\ AuxIdle
    /\ LatLngIdle
    /\ TimesIdle
    /\ ParseIdle
    /\ AssocIdle
    /\ GeocodeIdle

SpecDup == InitDup /\ [][NextReport]_vars

\* an address without its leading and trailing blanks, in lower case
TrimmedFolded(addr) ==
    LET nonblank == {i \in 1..Len(addr) : addr[i] # " "}
    IN  IF nonblank = {} THEN <<>>
        ELSE [k \in 1..(SetMax(nonblank) - SetMin(nonblank) + 1) |->
                 LowerChar(addr[SetMin(nonblank) + k - 1])]

\* the input and the output of the duplicate-origin stage
DupInput == stages.date_filtered_trips
DupOutput == stages.filtered_impossible

DupOrigin(i) == TrimmedFolded(heap[DupInput[i]].StartingPoint)

DupRetained(i) == \E k \in 1..Len(DupOutput) : DupOutput[k] = DupInput[i]

\* the position of the latest retained trip before position i, 0 if none
DupPrecedingRetained(i) ==
    LET kept == {j \in 1..(i - 1) : DupRetained(j)}
    IN  IF kept = {} THEN 0 ELSE SetMax(kept)

\* C11: the duplicate-origin stage drops a trip exactly when its trimmed,
\* case-folded origin is non-empty and equals that of the retained trip
\* immediately before it; the first trip is always retained, a trip with an
\* empty origin is never dropped, and the output keeps the input's order.
C11_DropsAdjacentDuplicateOrigin ==
    (pc = "done" /\ trips # <<>>) =>
        /\ DupOutput = SelectSeq(DupInput, LAMBDA id :
                           \E k \in 1..Len(DupOutput) : DupOutput[k] = id)
        /\ DupInput # <<>> => DupRetained(1)
        /\ \A i \in 1..Len(DupInput) :
              /\ DupOrigin(i) = <<>> => DupRetained(i)
              /\ ~DupRetained(i) <=>
                    /\ DupPrecedingRetained(i) # 0
                    /\ DupOrigin(i) # <<>>
                    /\ DupOrigin(i) = DupOrigin(DupPrecedingRetained(i))

\* three trips reach the stage; the second differs from the first only in
\* case and surrounding blanks and is dropped, the third is kept
C11_Witness ==
    /\ pc = "done"
    /\ Len(DupInput) = 3
    /\ DupOutput = <<DupInput[1], DupInput[3]>>
    /\ heap[DupInput[1]].StartingPoint # heap[DupInput[2]].StartingPoint

-----------------------------------------------------------------------------
(* write_final_report on trips that each of the filter stages tells apart  *)
(* (l.597-842)                                                             *)

MaxFilterTrips == 2

AddrCityB == <<"C", "i", "t", "y", "_", "B", ",", " ", "O", "N", " ", "7">>   \* 'City_B, ON 7'

FilterBodies ==
    {Body(AddrPlain, AddrCity4, 20),
     Body(AddrQuebec, AddrPlain, 20), Body(AddrPlain, AddrQuebec, 20),
     Body(AddrQuebec, AddrQuebec, 20),
     Body(AddrCityA, AddrPlain, 20), Body(AddrPlain, AddrCityA, 20),
     Body(AddrCityB, AddrPlain, 20), Body(AddrPlain, AddrCityB, 20),
     Body(AddrCity4, AddrPlain, 15), Body(AddrCity4, AddrPlain, 14),
     BodyAt(AddrCityA, AddrPlain, 20, StartTimeNoTime)}

FilterDates == {4, 9}

InitFilters ==
    /\ pc = "start"
    /\ \E n \in 0..MaxFilterTrips :
          /\ heap \in TripHeaps(n, FilterDates, FilterBodies)
          /\ trips = [i \in 1..n |-> i]
    /\ end_date \in ReportAnchorDates
    /\ end_odometer \in ReportAnchors
    /\ ReportIdle
    /\ AuxIdle
    /\ LatLngIdle
    /\ TimesIdle
    /\ ParseIdle
    /\ AssocIdle
    /\ GeocodeIdle

SpecFilters == InitFilters /\ [][NextReport]_vars

\* the ids of a list
Members(list) == {list[k] : k \in 1..Len(list)}

\* list a is list b without some of its elements, in the order of b
OrderedSublist(a, b) == a = SelectSeq(b, LAMBDA id : id \in Members(a))

\* the trips of the data rows of the report, in row order
ReportedTrips == [k \in 1..(Len(rows) - 4) |-> rows[k + 2].trip]

\* an address matches the region marker: ', on ' or ', ontario', whatever the
\* case of the address
MatchesRegion(addr) ==
    Contains(Lower(addr), RegionOn) \/ Contains(Lower(addr), RegionOntario)

\* C13: the region stage keeps a trip if and only if both its origin and its
\* destination match the region marker, and a trip it drops is not reported.
C13_RegionBothEnds ==
    (pc = "done" /\ trips # <<>>) =>
        /\ OrderedSublist(stages.ontario_trips, trips)
        /\ \A i \in 1..Len(trips) :
              LET t == heap[trips[i]]
                  both == MatchesRegion(t.StartingPoint) /\ MatchesRegion(t.Destination)
              IN  /\ trips[i] \in Members(stages.ontario_trips) <=> both
                  /\ ~both => trips[i] \notin Members(ReportedTrips)

\* the first trip fails the region test on its origin only and is dropped;
\* the second passes on both sides and is kept
C13_Witness ==
    /\ pc = "done"
    /\ Len(trips) = 2
    /\ ~MatchesRegion(heap[1].StartingPoint) /\ MatchesRegion(heap[1].Destination)
    /\ stages.ontario_trips = <<2>>

\* the address contains an entry of the list, the case of the address ignored
ListedFolded(cities, addr) ==
    \E k \in 1..Len(cities) : Contains(Lower(addr), cities[k])

\* the address contains an entry of the list as written
ListedLiteral(cities, addr) ==
    \E k \in 1..Len(cities) : Contains(addr, cities[k])

\* C14 (as claimed): each exclusion stage drops a trip if and only if its
\* origin or destination contains an entry of the stage's list, and a trip
\* leaves the exclusion stages only if it contains no entry of any list.
C14_ExclusionLiteral ==
    (pc = "done" /\ trips # <<>>) =>
        /\ \A id \in Members(stages.ontario_trips) :
              id \notin Members(stages.non_excluded_trips) <=>
                  \/ ListedLiteral(excluded_cities, heap[id].StartingPoint)
                  \/ ListedLiteral(excluded_cities, heap[id].Destination)
        /\ \A id \in Members(stages.non_excluded_trips) :
              id \notin Members(stages.non_excluded2_trips) <=>
                  \/ ListedLiteral(excluded_cities_2, heap[id].StartingPoint)
                  \/ ListedLiteral(excluded_cities_2, heap[id].Destination)

\* C14 (amended): each exclusion stage drops a trip if and only if its
\* origin or destination, in lower case, contains an entry of the stage's
\* list; the stages are layered, so a trip the region stage kept leaves the
\* exclusion stages if and only if it contains no entry of either list.
C14_ExclusionFolded ==
    (pc = "done" /\ trips # <<>>) =>
        /\ OrderedSublist(stages.non_excluded_trips, stages.ontario_trips)
        /\ OrderedSublist(stages.non_excluded2_trips, stages.non_excluded_trips)
        /\ \A id \in Members(stages.ontario_trips) :
              id \notin Members(stages.non_excluded_trips) <=>
                  \/ ListedFolded(excluded_cities, heap[id].StartingPoint)
                  \/ ListedFolded(excluded_cities, heap[id].Destination)
        /\ \A id \in Members(stages.non_excluded_trips) :
              id \notin Members(stages.non_excluded2_trips) <=>
                  \/ ListedFolded(excluded_cities_2, heap[id].StartingPoint)
                  \/ ListedFolded(excluded_cities_2, heap[id].Destination)
        /\ \A id \in Members(stages.ontario_trips) :
              id \in Members(stages.non_excluded2_trips) <=>
                  \A cities \in {excluded_cities, excluded_cities_2} :
                      /\ ~ListedFolded(cities, heap[id].StartingPoint)
                      /\ ~ListedFolded(cities, heap[id].Destination)

\* the first trip has an entry of the first list in its destination only,
\* the second an entry of the second list in its origin only; the first
\* stage drops the first trip, the second stage the second
C14_Witness ==
    /\ pc = "done"
    /\ Len(trips) = 2
    /\ stages.ontario_trips = <<1, 2>>
    /\ ~ListedFolded(excluded_cities, heap[1].StartingPoint)
    /\ ListedFolded(excluded_cities, heap[1].Destination)
    /\ ListedFolded(excluded_cities_2, heap[2].StartingPoint)
    /\ stages.non_excluded_trips = <<2>>
    /\ stages.non_excluded2_trips = <<>>

\* C16: a trip below the 15 km floor is never in the report rows, a trip at
\* or above it that passed the earlier stages always is, and every reported
\* trip carries the odometer values computed from the distances of the
\* complete list, the short trips included.
C16_MinimumDistanceFloor ==
    (pc = "done" /\ trips # <<>>) =>
        /\ \A id \in Members(ReportedTrips) : heap[id].Distance >= 15
        /\ \A id \in Members(trips) :
              heap[id].Distance < 15 => id \notin Members(ReportedTrips)
        /\ \A id \in Members(stages.filtered_impossible) :
              heap[id].Distance >= 15 => id \in Members(ReportedTrips)
        /\ \A k \in 1..Len(ReportedTrips) :
              LET i == PositionOf(ReportedTrips[k])
              IN  DateParses(heap[trips[i]].Date) =>
                     /\ rows[k + 2].end_odometer = ExpectedEnd(i)
                     /\ rows[k + 2].start_odometer = ExpectedStart(i)
        /\ \A i \in 1..Len(trips) :
              (heap[trips[i]].Distance < 15 /\ DateParses(heap[trips[i]].Date)) =>
                  /\ heap[trips[i]].has_odo
                  /\ heap[trips[i]].EndOdometer - heap[trips[i]].StartOdometer
                        = heap[trips[i]].Distance

\* a short trip after the reference date is followed by a trip of more than
\* the floor; only the second is reported and its start odometer is the
\* reference odometer plus the distance of the short trip
C16_Witness ==
    /\ pc = "done"
    /\ Len(trips) = 2
    /\ heap[1].Date > end_date
    /\ heap[1].Distance > 0 /\ heap[1].Distance < 15
    /\ stages.filtered_impossible = <<1, 2>>
    /\ ReportedTrips = <<2>>
    /\ rows[3].start_odometer = end_odometer + heap[1].Distance

\* C17: every stage output is its input without some trips, in the input's
\* order, and the trips of the report rows appear in the order they have in
\* the list passed to write_final_report, none of them twice.
C17_OrderPreserved ==
    (pc = "done" /\ trips # <<>>) =>
        /\ OrderedSublist(stages.ontario_trips, trips)
        /\ OrderedSublist(stages.non_excluded_trips, stages.ontario_trips)
        /\ OrderedSublist(stages.non_excluded2_trips, stages.non_excluded_trips)
        /\ OrderedSublist(stages.date_filtered_trips, stages.non_excluded2_trips)
        /\ OrderedSublist(stages.filtered_impossible, stages.date_filtered_trips)
        /\ OrderedSublist(stages.filtered_data, stages.filtered_impossible)
        /\ ReportedTrips = stages.filtered_data
        /\ \A k \in 1..Len(ReportedTrips) : ReportedTrips[k] \in Members(trips)
        /\ \A k, l \in 1..Len(ReportedTrips) :
              k < l => PositionOf(ReportedTrips[k]) < PositionOf(ReportedTrips[l])

\* two trips are reported, in the order of the list passed in
C17_Witness ==
    /\ pc = "done"
    /\ Len(trips) = 2
    /\ ReportedTrips = <<trips[1], trips[2]>>
    /\ rows[3].item = 1 /\ rows[4].item = 2

\* C18: at the end of write_final_report, each stage applied to its own
\* output returns that output, and the purpose classification applied again
\* to the trips it labelled leaves every field of every trip as it is.
C18_StagesIdempotent ==
    (pc = "done" /\ trips # <<>>) =>
        /\ region_filter(heap, stages.ontario_trips) = stages.ontario_trips
        /\ exclusion_filter(heap, stages.non_excluded_trips, excluded_cities)
              = stages.non_excluded_trips
        /\ exclusion_filter(heap, stages.non_excluded2_trips, excluded_cities_2)
              = stages.non_excluded2_trips
        /\ date_range_filter(heap, stages.date_filtered_trips)
              = stages.date_filtered_trips
        /\ duplicate_origin_stage(heap, stages.filtered_impossible)
              = stages.filtered_impossible
        /\ assign_purposes(heap, stages.filtered_impossible) = heap
        /\ min_distance_filter(heap, stages.filtered_data) = stages.filtered_data

\* the duplicate-origin stage got two trips and dropped the second; the
\* minimum-distance stage kept the one that was left
C18_Witness ==
    /\ pc = "done"
    /\ stages.date_filtered_trips = <<1, 2>>
    /\ stages.filtered_impossible = <<1>>
    /\ stages.filtered_data = <<1>>

-----------------------------------------------------------------------------
(* write_final_report on trips dated around the excluded window            *)
(* (l.691-722)                                                             *)

MaxDateTrips == 2

DateBodies ==
    {Body(AddrPlain, AddrCity4, 20), Body(AddrQuebec, AddrPlain, 20),
     BodyAt(AddrCity4, AddrPlain, 20, <<>>),
     BodyAt(AddrPlain, AddrCity4, 20, StartTimeNoTime)}

\* unparseable, empty, the day before the window, its first day, a day
\* inside, its last day, the day after
WindowDates ==
    {-1, 0, ExcludeStart - 1, ExcludeStart, ExcludeStart + 2, ExcludeEnd,
     ExcludeEnd + 1}

InitDates ==
    /\ pc = "start"
    /\ \E n \in 0..MaxDateTrips :
          /\ heap \in TripHeaps(n, WindowDates, DateBodies)
          /\ trips = [i \in 1..n |-> i]
    /\ end_date \in ReportAnchorDates
    /\ end_odometer \in ReportAnchors
    /\ ReportIdle
    /\ AuxIdle
    /\ LatLngIdle
    /\ TimesIdle
    /\ ParseIdle
    /\ AssocIdle
    /\ GeocodeIdle

SpecDates == InitDates /\ [][NextReport]_vars

\* the trip's date parses and lies in the window, both ends included
InWindow(trip) ==
    trip.Date >= 1 /\ ExcludeStart <= trip.Date /\ trip.Date <= ExcludeEnd

\* C15 (as claimed): the date-range stage drops a trip if and only if its
\* date parses and lies within the inclusive window; a trip whose date is
\* empty or does not parse passes.
C15_DateWindowExclusion ==
    (pc = "done" /\ trips # <<>>) =>
        /\ OrderedSublist(stages.date_filtered_trips, stages.non_excluded2_trips)
        /\ \A id \in Members(stages.non_excluded2_trips) :
              /\ id \notin Members(stages.date_filtered_trips) <=> InWindow(heap[id])
              /\ heap[id].Date \in {-1, 0} =>
                    id \in Members(stages.date_filtered_trips)

\* the same statement for the trips whose removal message can be printed
C15_DateWindowExclusionPrintable ==
    (pc = "done" /\ trips # <<>>) =>
        /\ OrderedSublist(stages.date_filtered_trips, stages.non_excluded2_trips)
        /\ \A id \in Members(stages.non_excluded2_trips) :
              /\ ~removal_message_raises(heap[id]) =>
                   (id \notin Members(stages.date_filtered_trips) <=> InWindow(heap[id]))
              /\ heap[id].Date \in {-1, 0} =>
                    id \in Members(stages.date_filtered_trips)

\* a trip dated on the last day of the window is dropped, one with an
\* unparseable date passes
C15_PrintableWitness ==
    /\ pc = "done"
    /\ stages.non_excluded2_trips = <<1, 2>>
    /\ heap[1].Date = -1 /\ heap[2].Date = ExcludeEnd
    /\ stages.date_filtered_trips = <<1>>

-----------------------------------------------------------------------------
(* geocode_place_id, reverse_geocode_coords (l.47-126)                     *)
(*                                                                         *)
(* A coordinate is an integer number of 1e-7 degrees (the export prints    *)
(* seven decimals), so that two coordinates can differ and still have the  *)
(* same six-decimal text.  The service answers a request with a text that  *)
(* names the request, so answers to different requests differ.             *)

MaxCalls == 3

PlaceIds == {"P1", "P2"}

\* 0.0000012, 0.0000014 (both '0.000001') and 0.0000026 ('0.000003')
CoordValues == {12, 14, 26}
LngValues == {12, 26}

\* what happens to a request: status OK with a result, another status (or no
\* result), an exception of requests.get / raise_for_status / json
Outcomes == {"OK", "ZERO_RESULTS", "exception"}

\* f"{x:.6f}" of a non-negative coordinate, in units of 1e-6 degrees
Round6(x) == (x + 5) \div 10

Cached(cache, key) == \E e \in cache : e.key = key
CacheGet(cache, key) == (CHOOSE e \in cache : e.key = key).value
CachePut(cache, key, value) ==
    {e \in cache : e.key # key} \cup {[key |-> key, value |-> value]}

\* the requests of l.58 and l.112
PlaceRequest(place_id) == [api |-> "place/details", place |-> place_id, lat |-> 0, lng |-> 0]
GeocodeRequest(lat, lng) == [api |-> "geocode", place |-> "", lat |-> lat, lng |-> lng]

\* the dict geocode_place_id returns; a missing 'name' reads as ''
AddressInfo(formatted_address, name) ==
    [formatted_address |-> formatted_address, name |-> name]

\* Mutant: the fallback dicts are stored in the cache too.
geocode_place_id_caching_failures(cache, place_id, outcome) ==
    IF Cached(cache, place_id)
    THEN [cache |-> cache, result |-> CacheGet(cache, place_id), sent |-> <<>>]
    ELSE LET info ==
                 IF outcome = "OK"
                 THEN AddressInfo(Text("formatted_address", place_id, 0, 0),
                                  Text("name", place_id, 0, 0))
                 ELSE IF outcome = "exception"
                 THEN AddressInfo(Text("Error resolving address", "", 0, 0), EmptyText)
                 ELSE AddressInfo(Text("Unknown Place ID", "", 0, 0), EmptyText)
         IN  [cache |-> CachePut(cache, place_id, info), result |-> info,
              sent |-> <<PlaceRequest(place_id)>>]

\* l.47-96: the cache after the call, the return value and the request sent
geocode_place_id(cache, place_id, outcome) ==
    IF Cached(cache, place_id)
    THEN [cache |-> cache, result |-> CacheGet(cache, place_id), sent |-> <<>>]
    ELSE IF outcome = "OK"
    THEN LET address_info ==
                 AddressInfo(Text("formatted_address", place_id, 0, 0),
                             Text("name", place_id, 0, 0))
         IN  [cache |-> CachePut(cache, place_id, address_info),
              result |-> address_info, sent |-> <<PlaceRequest(place_id)>>]
    ELSE IF outcome = "exception"
    THEN [cache |-> cache,
          result |-> AddressInfo(Text("Error resolving address", "", 0, 0), EmptyText),
          sent |-> <<PlaceRequest(place_id)>>]
    ELSE [cache |-> cache,
          result |-> AddressInfo(Text("Unknown Place ID", "", 0, 0), EmptyText),
          sent |-> <<PlaceRequest(place_id)>>]

\* l.100
cache_key(lat, lng) == <<Round6(lat), Round6(lng)>>

\* l.98-126
reverse_geocode_coords(cache, lat, lng, outcome) ==
    IF Cached(cache, cache_key(lat, lng))
    THEN [cache |-> cache, result |-> CacheGet(cache, cache_key(lat, lng)),
          sent |-> <<>>]
    ELSE IF outcome = "OK"
    THEN LET address == Text("formatted_address", "", lat, lng)
         IN  [cache |-> CachePut(cache, cache_key(lat, lng), address),
              result |-> address, sent |-> <<GeocodeRequest(lat, lng)>>]
    ELSE [cache |-> cache,
          result |-> Text("(lat, lng)", "", Round6(lat), Round6(lng)),
          sent |-> <<GeocodeRequest(lat, lng)>>]

InitGeocode ==
    /\ pc = "start"
    /\ GeocodeIdle
    /\ LatLngIdle
    /\ TimesIdle
    /\ ParseIdle
    /\ AssocIdle
    /\ OdoIdle
    /\ ReportIdle
    /\ AuxIdle

GeocodePlaceId ==
    /\ calls < MaxCalls
    /\ \E place_id \in PlaceIds, outcome \in Outcomes :
          LET r == geocode_place_id(geocode_cache, place_id, outcome)
          IN  /\ geocode_cache' = r.cache
              /\ geocode_result' = r.result.formatted_address
              /\ requests' = requests \o r.sent
    /\ calls' = calls + 1
    /\ UNCHANGED <<pc, reverse_geocode_cache, resolve_vars, latlng_vars, times_vars,
                   parse_vars, assoc_vars, odo_vars, report_vars, aux_vars>>

ReverseGeocodeCoords ==
    /\ calls < MaxCalls
    /\ \E lat \in CoordValues, lng \in LngValues, outcome \in Outcomes :
          LET r == reverse_geocode_coords(reverse_geocode_cache, lat, lng, outcome)
          IN  /\ reverse_geocode_cache' = r.cache
              /\ geocode_result' = r.result
              /\ requests' = requests \o r.sent
    /\ calls' = calls + 1
    /\ UNCHANGED <<pc, geocode_cache, resolve_vars, latlng_vars, times_vars,
                   parse_vars, assoc_vars, odo_vars, report_vars, aux_vars>>

NextGeocode == GeocodePlaceId \/ ReverseGeocodeCoords

SpecGeocode == InitGeocode /\ [][NextGeocode]_vars

\* the cache key of a request: the place identifier, or the coordinate pair
\* rounded to six decimals
RequestKey(req) == <<req.api, req.place, Round6(req.lat), Round6(req.lng)>>

\* C19 (as claimed): over any sequence of lookups on one instance the
\* service is asked at most once per key, whatever the outcome of the first
\* request.
C19_AtMostOneRequestPerKey ==
    \A i, j \in 1..Len(requests) :
        i < j => RequestKey(requests[i]) # RequestKey(requests[j])

\* what the code does guarantee: a key is never asked for again once a
\* request for it was answered with status OK and a result
C19_NoRequestAfterCachedAnswer ==
    [][\A k \in (Len(requests) + 1)..Len(requests') :
          LET req == requests'[k]
          IN  IF req.api = "geocode"
              THEN ~Cached(reverse_geocode_cache, cache_key(req.lat, req.lng))
              ELSE ~Cached(geocode_cache, req.place)]_vars

-----------------------------------------------------------------------------
(* resolve_addresses (l.287-318)                                           *)
(*                                                                         *)
(* A coordinate 0 stands for a falsy value (None or 0.0), a place_id ""    *)
(* for a missing or empty one.                                             *)

MaxResolveRecords == 2

ResolveRecord(type, place_id, start_lat, start_lng, end_lat, end_lng) ==
    [type |-> type, place_id |-> place_id,
     activity_type |-> IF type = "Activity" THEN "IN_PASSENGER_VEHICLE" ELSE "",
     start_lat |-> start_lat, start_lng |-> start_lng,
     end_lat |-> end_lat, end_lng |-> end_lng,
     has_address |-> FALSE, address |-> EmptyText, place_name |-> EmptyText,
     has_start_address |-> FALSE, start_address |-> EmptyText,
     has_end_address |-> FALSE, end_address |-> EmptyText]

\* l.224: an Activity whose top candidate is not a vehicle
WalkingActivity(start_lat, start_lng, end_lat, end_lng) ==
    [ResolveRecord("Activity", "", start_lat, start_lng, end_lat, end_lng)
        EXCEPT !.activity_type = "WALKING"]

\* two Visits, three vehicle Activities (two of them start at coordinates that
\* differ and have the same six-decimal text, one has no start latitude), an
\* Activity on foot, a path
ResolveRecords ==
    {ResolveRecord("Visit", "", 0, 0, 0, 0),
     WalkingActivity(12, 12, 0, 12),
     ResolveRecord("Visit", "P1", 0, 0, 0, 0),
     ResolveRecord("Activity", "", 12, 12, 26, 12),
     ResolveRecord("Activity", "", 14, 12, 26, 12),
     ResolveRecord("Activity", "", 0, 12, 12, 12),
     ResolveRecord("TimelinePath", "", 0, 0, 0, 0)}

\* the lookups resolve_addresses makes, as <<record index, field>>
LookupsOf(recs, activities) ==
    {<<i, "place">> : i \in {j \in 1..Len(recs) :
         recs[j].type = "Visit" /\ recs[j].place_id # ""}}
    \cup {<<i, "start">> : i \in {j \in 1..Len(recs) :
         /\ recs[j].type = "Activity" /\ activities
         /\ recs[j].start_lat # 0 /\ recs[j].start_lng # 0}}
    \cup {<<i, "end">> : i \in {j \in 1..Len(recs) :
         /\ recs[j].type = "Activity" /\ activities
         /\ recs[j].end_lat # 0 /\ recs[j].end_lng # 0}}

\* l.298-303
resolve_visit(st, i, pattern) ==
    LET record == st.records[i]
    IN  IF record.type = "Visit" /\ record.place_id # ""
        THEN LET g == geocode_place_id(st.geocode_cache, record.place_id,
                                       pattern[<<i, "place">>])
             IN  [st EXCEPT !.records[i].address = g.result.formatted_address,
                            !.records[i].has_address = TRUE,
                            !.records[i].place_name = g.result.name,
                            !.geocode_cache = g.cache,
                            !.requests = st.requests \o g.sent]
        ELSE st

\* l.306-309
resolve_start(st, i, activities, pattern) ==
    LET record == st.records[i]
    IN  IF /\ record.type = "Activity" /\ activities
           /\ record.start_lat # 0 /\ record.start_lng # 0
        THEN LET g == reverse_geocode_coords(st.reverse_geocode_cache,
                          record.start_lat, record.start_lng, pattern[<<i, "start">>])
             IN  [st EXCEPT !.records[i].start_address = g.result,
                            !.records[i].has_start_address = TRUE,
                            !.reverse_geocode_cache = g.cache,
                            !.requests = st.requests \o g.sent]
        ELSE st

\* l.311-314
resolve_end(st, i, activities, pattern) ==
    LET record == st.records[i]
    IN  IF /\ record.type = "Activity" /\ activities
           /\ record.end_lat # 0 /\ record.end_lng # 0
        THEN LET g == reverse_geocode_coords(st.reverse_geocode_cache,
                          record.end_lat, record.end_lng, pattern[<<i, "end">>])
             IN  [st EXCEPT !.records[i].end_address = g.result,
                            !.records[i].has_end_address = TRUE,
                            !.reverse_geocode_cache = g.cache,
                            !.requests = st.requests \o g.sent]
        ELSE st

\* l.294-315: for i, record in enumerate(records)
RECURSIVE resolve_loop(_, _, _, _)
resolve_loop(st, i, activities, pattern) ==
    IF i > Len(st.records) THEN st
    ELSE resolve_loop(
             resolve_end(resolve_start(resolve_visit(st, i, pattern),
                                       i, activities, pattern),
                         i, activities, pattern),
             i + 1, activities, pattern)

\* l.287-318: the records returned, the two caches and the requests sent
resolve_addresses(recs, activities, pattern, gcache, rcache, sent) ==
    resolve_loop([records |-> recs, geocode_cache |-> gcache,
                  reverse_geocode_cache |-> rcache, requests |-> sent],
                 1, activities, pattern)

InitResolve ==
    /\ pc = "start"
    /\ resolve_records \in SeqsUpTo(ResolveRecords, MaxResolveRecords)
    /\ resolve_input = resolve_records
    /\ resolve_activities \in BOOLEAN
    /\ outcomes = <<>>
    /\ geocode_cache = {} /\ reverse_geocode_cache = {} /\ requests = <<>>
    /\ calls = 0 /\ geocode_result = EmptyText
    /\ LatLngIdle
    /\ TimesIdle
    /\ ParseIdle
    /\ AssocIdle
    /\ OdoIdle
    /\ ReportIdle
    /\ AuxIdle

ResolveAddresses ==
    /\ pc = "start"
    /\ pc' = "done"
    /\ \E pattern \in [LookupsOf(resolve_records, resolve_activities) -> Outcomes] :
          LET st == resolve_addresses(resolve_records, resolve_activities, pattern,
                                      geocode_cache, reverse_geocode_cache, requests)
          IN  /\ resolve_records' = st.records
              /\ geocode_cache' = st.geocode_cache
              /\ reverse_geocode_cache' = st.reverse_geocode_cache
              /\ requests' = st.requests
              /\ outcomes' = pattern
    /\ UNCHANGED <<resolve_input, resolve_activities, lookup_vars, latlng_vars,
                   times_vars, parse_vars, assoc_vars, odo_vars, report_vars, aux_vars>>

NextResolve == ResolveAddresses

SpecResolve == InitResolve /\ [][NextResolve]_vars

\* the lookups of the call, in the order they are made
Lookups == LookupsOf(resolve_input, resolve_activities)

LookupRank(l) ==
    3 * l[1] + (IF l[2] = "place" THEN 0 ELSE IF l[2] = "start" THEN 1 ELSE 2)

\* the request a lookup sends when its key is not cached
LookupRequest(l) ==
    LET record == resolve_input[l[1]]
    IN  IF l[2] = "place" THEN PlaceRequest(record.place_id)
        ELSE IF l[2] = "start" THEN GeocodeRequest(record.start_lat, record.start_lng)
        ELSE GeocodeRequest(record.end_lat, record.end_lng)

LookupKey(l) == RequestKey(LookupRequest(l))

\* the lookups made before l with the key of l
EarlierSameKey(l) ==
    {m \in Lookups : LookupRank(m) < LookupRank(l) /\ LookupKey(m) = LookupKey(l)}

\* the lookup sent a request and the request failed
LookupFailed(l) ==
    /\ outcomes[l] # "OK"
    /\ \A m \in EarlierSameKey(l) : outcomes[m] # "OK"

\* the address the call stored for a lookup
StoredAddress(recs, l) ==
    IF l[2] = "place" THEN recs[l[1]].address
    ELSE IF l[2] = "start" THEN recs[l[1]].start_address
    ELSE recs[l[1]].end_address

HasStoredAddress(recs, l) ==
    IF l[2] = "place" THEN recs[l[1]].has_address
    ELSE IF l[2] = "start" THEN recs[l[1]].has_start_address
    ELSE recs[l[1]].has_end_address

\* the fixed text or the coordinate pair a failed lookup yields
FallbackOf(l) ==
    LET req == LookupRequest(l)
    IN  IF l[2] = "place"
        THEN IF outcomes[l] = "exception"
             THEN Text("Error resolving address", "", 0, 0)
             ELSE Text("Unknown Place ID", "", 0, 0)
        ELSE Text("(lat, lng)", "", Round6(req.lat), Round6(req.lng))

\* the records the same call returns when no request fails
WithoutFailures ==
    resolve_addresses(resolve_input, resolve_activities,
                      [l \in Lookups |-> "OK"], {}, {}, <<>>).records

\* every record is returned, in place, with its own fields as they were;
\* every lookup stored an address; a failed lookup stored its fallback
ResolveCompletes ==
    /\ Len(resolve_records) = Len(resolve_input)
    /\ \A i \in 1..Len(resolve_input) :
          /\ resolve_records[i].type = resolve_input[i].type
          /\ resolve_records[i].place_id = resolve_input[i].place_id
          /\ resolve_records[i].start_lat = resolve_input[i].start_lat
          /\ resolve_records[i].start_lng = resolve_input[i].start_lng
          /\ resolve_records[i].end_lat = resolve_input[i].end_lat
          /\ resolve_records[i].end_lng = resolve_input[i].end_lng
          /\ resolve_records[i].has_address <=> <<i, "place">> \in Lookups
          /\ resolve_records[i].has_start_address <=> <<i, "start">> \in Lookups
          /\ resolve_records[i].has_end_address <=> <<i, "end">> \in Lookups
    /\ \A l \in Lookups :
          LookupFailed(l) => StoredAddress(resolve_records, l) = FallbackOf(l)

\* C20 (as claimed): whatever lookups fail, resolve_addresses returns every
\* record, a failed lookup yields its fallback text, and every record none
\* of whose lookups failed has the addresses it has when no lookup fails.
C20_FailureIsolation ==
    pc = "done" =>
        /\ ResolveCompletes
        /\ \A i \in 1..Len(resolve_input) :
              (\A l \in Lookups : l[1] = i => ~LookupFailed(l)) =>
                  resolve_records[i] = WithoutFailures[i]

\* the first lookup with the key of l that the service answers
AnsweredLookup(l) ==
    LET answered == {m \in EarlierSameKey(l) \cup {l} : outcomes[m] = "OK"}
    IN  CHOOSE m \in answered : \A n \in answered : LookupRank(m) <= LookupRank(n)

\* the formatted address the service gives for a request
Response(req) == Text("formatted_address", req.place, req.lat, req.lng)

\* C20 (amended): whatever lookups fail, resolve_addresses returns every
\* record and a failed lookup yields its fallback text; a lookup that did not
\* fail stores the address of the first answered request for its key, which
\* is the address it stores when no lookup fails unless an earlier lookup
\* with the same key failed.
C20_FailureIsolationPerKey ==
    pc = "done" =>
        /\ ResolveCompletes
        /\ \A l \in Lookups :
              ~LookupFailed(l) =>
                  /\ StoredAddress(resolve_records, l)
                        = Response(LookupRequest(AnsweredLookup(l)))
                  /\ (\A m \in EarlierSameKey(l) : ~LookupFailed(m)) =>
                        StoredAddress(resolve_records, l)
                           = StoredAddress(WithoutFailures, l)

\* two Visits of the same place: the lookup of the first fails and stores
\* the fallback, the lookup of the second is answered and stores the address
C20_Witness ==
    /\ pc = "done"
    /\ Len(resolve_input) = 2
    /\ <<1, "place">> \in Lookups /\ <<2, "place">> \in Lookups
    /\ LookupFailed(<<1, "place">>) /\ ~LookupFailed(<<2, "place">>)
    /\ resolve_records[1].address.kind = "Error resolving address"
    /\ resolve_records[2].address = Response(PlaceRequest(resolve_input[2].place_id))

-----------------------------------------------------------------------------
(* The rows of the report (l.844-903)                                      *)

\* the sum of the Km Driven cells of the first n data rows
RECURSIVE KmOfDataRows(_)
KmOfDataRows(n) == IF n = 0 THEN 0 ELSE rows[n + 2].km + KmOfDataRows(n - 1)

\* C21: the report is a total row, the header row, one data row per reported
\* trip numbered 1..n in order, a blank row and a summary row; the total of
\* the first row and of the summary row are equal and are the sum of the
\* distances of the n reported trips; these rows are what is written.
C21_ReportShape ==
    (pc = "done" /\ trips # <<>>) =>
        LET n == Len(stages.filtered_data)
        IN  /\ Len(rows) = n + 4
            /\ rows[1].kind = "total"
            /\ rows[2].kind = "header"
            /\ \A k \in 1..n :
                  /\ rows[k + 2].kind = "data"
                  /\ rows[k + 2].item = k
                  /\ rows[k + 2].trip = stages.filtered_data[k]
                  /\ rows[k + 2].km = heap[stages.filtered_data[k]].Distance
            /\ rows[n + 3].kind = "blank"
            /\ rows[n + 4].kind = "summary"
            /\ rows[1].total = rows[n + 4].total
            /\ rows[1].total = KmOfDataRows(n)
            /\ \A k \in {2, n + 3} \cup (3..(n + 2)) : rows[k].total = 0
            /\ sheet.content \in {rows, <<>>, PriorContent}

\* two trips of 15 and 20 km are reported and written: rows 3 and 4 are
\* numbered 1 and 2 and both totals are 35
C21_Witness ==
    /\ pc = "done"
    /\ Len(rows) = 6
    /\ rows[3].km + rows[4].km = 35
    /\ rows[1].total = 35 /\ rows[6].total = 35
    /\ sheet.content = rows

-----------------------------------------------------------------------------
(* write_final_report on an empty list (l.588-590)                         *)

\* what the caller of write_final_report can observe of the call
Observed == [returned |-> report_return, raised |-> pc = "raised"]

\* C22 (as claimed): given an empty trip list write_final_report clears
\* nothing and writes nothing, and what the caller observes differs from
\* what it observes when the report was written.
C22_EmptyInputReported ==
    (pc = "done" /\ trips = <<>>) =>
        /\ sheet.calls = <<>>
        /\ sheet.content = PriorContent
        /\ rows = <<>>
        /\ Observed # [returned |-> "None", raised |-> FALSE]

\* the storage part of the statement: no call to the storage on empty input
C22_EmptyInputNoStorageCall ==
    (pc = "done" /\ trips = <<>>) =>
        sheet.calls = <<>> /\ sheet.content = PriorContent /\ rows = <<>>

\* a call that wrote the report returns None and raises nothing
C22_WrittenReportReturnsNone ==
    (pc = "done" /\ trips # <<>> /\ sheet.content = rows) =>
        Observed = [returned |-> "None", raised |-> FALSE]

-----------------------------------------------------------------------------
(* The two duplicate-origin scans (l.724-780)                              *)

\* the trip at position i of the date-filtered list has the non-empty
\* normalized origin of the trip right before it
AdjacentDuplicateAt(i) ==
    /\ i > 1
    /\ DupOrigin(i) # <<>>
    /\ DupOrigin(i) = DupOrigin(i - 1)

\* one application of the adjacent-duplicate-origin stage to the output of
\* the date-range stage
SingleApplication ==
    LET kept == {DupInput[i] : i \in {j \in 1..Len(DupInput) : ~AdjacentDuplicateAt(j)}}
    IN  SelectSeq(DupInput, LAMBDA id : id \in kept)

\* C23: the list handed to purpose classification is the result of one
\* application of the adjacent-duplicate-origin stage to the output of the
\* date-range stage; the first scan, whose result the code discards, gives
\* the same list.
C23_DuplicateFilterOnce ==
    (pc = "done" /\ trips # <<>>) =>
        /\ stages.filtered_impossible = SingleApplication
        /\ stages.first_scan = stages.filtered_impossible
        /\ \A id \in DOMAIN heap :
              heap[id].Purpose # "" => id \in Members(stages.filtered_impossible)

\* three trips with the same origin reach the scans; each scan keeps the
\* first one only
C23_Witness ==
    /\ pc = "done"
    /\ Len(stages.date_filtered_trips) = 3
    /\ DupOrigin(1) = DupOrigin(2) /\ DupOrigin(2) = DupOrigin(3)
    /\ stages.first_scan = <<stages.date_filtered_trips[1]>>
    /\ stages.filtered_impossible = <<stages.date_filtered_trips[1]>>

-----------------------------------------------------------------------------
(* The list calculate_odometer_readings returns (l.548-583)                *)

\* the list the call was given: the trip dicts 1..n in this order
OdoArgument == [i \in 1..Len(heap) |-> i]

RECURSIVE DistanceOf(_)
DistanceOf(ids) ==
    IF ids = {} THEN 0
    ELSE LET id == CHOOSE x \in ids : TRUE
         IN  heap[id].Distance + DistanceOf(ids \ {id})

\* the dated trips at or before the reference date that follow trip id, and
\* the dated trips after the reference date that precede it
WalkedAfter(id) ==
    {x \in DOMAIN heap : x > id /\ DateParses(heap[x].Date) /\ heap[x].Date <= end_date}
WalkedBefore(id) ==
    {x \in DOMAIN heap : x < id /\ DateParses(heap[x].Date) /\ heap[x].Date > end_date}

\* C24: calculate_odometer_readings returns the trips it was given, in the
\* same order and none lost; a trip whose date is empty or does not parse
\* gets no Start/End Odometer and stays at its position, and the odometer
\* values of the other trips are those of the walk over the dated trips
\* alone.
C24_SameTripsSameOrder ==
    pc = "done" =>
        /\ trips = OdoArgument
        /\ \A id \in DOMAIN heap :
              IF ~DateParses(heap[id].Date)
              THEN ~heap[id].has_odo
              ELSE /\ heap[id].has_odo
                   /\ heap[id].Date <= end_date =>
                        heap[id].EndOdometer = end_odometer - DistanceOf(WalkedAfter(id))
                   /\ heap[id].Date > end_date =>
                        heap[id].StartOdometer = end_odometer + DistanceOf(WalkedBefore(id))

\* a trip with an empty date sits between two trips dated on the reference
\* date: it is returned in place without odometer values, and the two dated
\* trips join up across it
C24_Witness ==
    /\ pc = "done"
    /\ trips = <<1, 2, 3>>
    /\ heap[2].Date = 0 /\ ~heap[2].has_odo
    /\ heap[1].Date = end_date /\ heap[3].Date = end_date
    /\ heap[3].EndOdometer = end_odometer
    /\ heap[1].EndOdometer = heap[3].StartOdometer

-----------------------------------------------------------------------------
(* The two walks of calculate_odometer_readings (l.562-576)                *)

WalkedBackward ==
    SelectSeq(trips, LAMBDA id : DateParses(heap[id].Date) /\ heap[id].Date <= end_date)
WalkedForward ==
    SelectSeq(trips, LAMBDA id : DateParses(heap[id].Date) /\ heap[id].Date > end_date)

\* C25: every trip with a parseable date gets End Odometer - Start Odometer
\* equal to its Distance; the trips dated on or before the reference date
\* are walked in reverse from the reference odometer (end = current,
\* start = current - distance, current = start), the trips dated after it
\* forward from the reference odometer (start = current,
\* end = current + distance, current = end).
C25_WalkByDistance ==
    pc = "done" =>
        /\ \A id \in DOMAIN heap :
              DateParses(heap[id].Date) =>
                  /\ heap[id].has_odo
                  /\ heap[id].EndOdometer - heap[id].StartOdometer = heap[id].Distance
        /\ \A k \in 1..Len(WalkedBackward) :
              heap[WalkedBackward[k]].EndOdometer =
                  IF k = Len(WalkedBackward) THEN end_odometer
                  ELSE heap[WalkedBackward[k + 1]].StartOdometer
        /\ \A k \in 1..Len(WalkedForward) :
              heap[WalkedForward[k]].StartOdometer =
                  IF k = 1 THEN end_odometer
                  ELSE heap[WalkedForward[k - 1]].EndOdometer

\* two trips of different lengths before the reference date and one after
\* it, the reference odometer being 100
C25_Witness ==
    /\ pc = "done"
    /\ Len(trips) = 3
    /\ end_odometer = 100
    /\ DateParses(heap[1].Date) /\ heap[2].Date <= end_date /\ heap[3].Date > end_date
    /\ heap[1].Distance = 5 /\ heap[2].Distance = 20 /\ heap[3].Distance = 20
    /\ heap[1].StartOdometer = 75 /\ heap[1].EndOdometer = 80
    /\ heap[2].StartOdometer = 80 /\ heap[2].EndOdometer = 100
    /\ heap[3].StartOdometer = 100 /\ heap[3].EndOdometer = 120

-----------------------------------------------------------------------------
(* The records resolve_addresses leaves alone (l.298-314)                  *)

HasCoords(lat, lng) == lat # 0 /\ lng # 0

\* the record was returned with no address field added or changed
PassedThrough(i) == resolve_records[i] = resolve_input[i]

\* C26 (as claimed): the place lookup is made only for Visit records with a
\* non-empty place identifier, reverse geocoding only for Activity records of
\* vehicle type when resolve_activities is true and the coordinates are
\* present, start and end independently; every other record is returned as
\* it was, and the list keeps its length and order.
C26_PassThrough ==
    pc = "done" =>
        /\ Len(resolve_records) = Len(resolve_input)
        /\ \A i \in 1..Len(resolve_input) :
              LET in == resolve_input[i]
                  out == resolve_records[i]
                  visit == in.type = "Visit" /\ in.place_id # ""
                  vehicle == /\ in.type = "Activity"
                             /\ in.activity_type = "IN_PASSENGER_VEHICLE"
                             /\ resolve_activities
                  start == vehicle /\ HasCoords(in.start_lat, in.start_lng)
                  end == vehicle /\ HasCoords(in.end_lat, in.end_lng)
              IN  /\ out.type = in.type /\ out.place_id = in.place_id
                  /\ out.has_address <=> visit
                  /\ out.has_start_address <=> start
                  /\ out.has_end_address <=> end
                  /\ ~(visit \/ start \/ end) => PassedThrough(i)

\* what the code does: the same with every Activity record, whatever its
\* activity type
C26_PassThroughAnyActivity ==
    pc = "done" =>
        /\ Len(resolve_records) = Len(resolve_input)
        /\ \A i \in 1..Len(resolve_input) :
              LET in == resolve_input[i]
                  out == resolve_records[i]
                  visit == in.type = "Visit" /\ in.place_id # ""
                  activity == in.type = "Activity" /\ resolve_activities
                  start == activity /\ HasCoords(in.start_lat, in.start_lng)
                  end == activity /\ HasCoords(in.end_lat, in.end_lng)
              IN  /\ out.type = in.type /\ out.place_id = in.place_id
                  /\ out.activity_type = in.activity_type
                  /\ out.has_address <=> visit
                  /\ out.has_start_address <=> start
                  /\ out.has_end_address <=> end
                  /\ ~(visit \/ start \/ end) => PassedThrough(i)

-----------------------------------------------------------------------------
(* write_to_sheet and _get_headers (l.320-388)                             *)
(*                                                                         *)
(* A record is its type and the set of its keys; the text of a cell is     *)
(* <<key>> in the header row, <<type, key>> for the value a record has     *)
(* under a key, and <<>> for ''.  A tab is the set of its non-empty cells, *)
(* column 1 being A.                                                       *)

MaxSheetRecords == 3
MaxWrites == 2

\* l.187-199 and l.301-302: a Visit whose place id was resolved
VisitKeys ==
    {"type", "start_time", "end_time", "duration_minutes", "place_id",
     "semantic_type", "probability", "lat", "lng", "hierarchy_level",
     "visit_confidence", "address", "place_name"}

\* l.219-232
ActivityKeys ==
    {"type", "start_time", "end_time", "duration_minutes", "activity_type",
     "activity_confidence", "distance_km", "distance_meters", "start_lat",
     "start_lng", "end_lat", "end_lng"}

\* l.306-314: an Activity whose two ends were reverse geocoded
ResolvedActivityKeys == ActivityKeys \cup {"start_address", "end_address"}

\* l.252-261
PathKeys ==
    {"type", "start_time", "end_time", "num_points", "first_point_lat",
     "first_point_lng", "last_point_lat", "last_point_lng"}

SheetRecords ==
    {[type |-> "Visit", keys |-> VisitKeys],
     [type |-> "Activity", keys |-> ActivityKeys],
     [type |-> "Activity", keys |-> ResolvedActivityKeys],
     [type |-> "Location Path", keys |-> PathKeys]}

\* l.372-379
priority_fields ==
    <<"type", "start_time", "end_time", "duration_minutes",
      "place_name", "address", "semantic_type", "place_id", "probability",
      "visit_confidence", "hierarchy_level", "activity_type", "activity_confidence",
      "distance_km", "distance_meters", "start_address", "end_address",
      "lat", "lng", "start_lat", "start_lng", "end_lat", "end_lng",
      "num_points", "first_point_lat", "first_point_lng", "last_point_lat",
      "last_point_lng">>

\* l.387: sorted(all_keys); the records of the parsers have no key outside
\* priority_fields, so nothing is left to sort
sorted_rest(keys) ==
    IF keys = {} THEN <<>>
    ELSE CHOOSE q \in [1..Cardinality(keys) -> keys] :
             \A i, j \in 1..Cardinality(keys) : i # j => q[i] # q[j]

\* l.366-388
_get_headers(recs) ==
    LET all_keys == UNION {recs[i].keys : i \in 1..Len(recs)}
        first == SelectSeq(priority_fields, LAMBDA field : field \in all_keys)
    IN  first \o sorted_rest(all_keys \ {priority_fields[i] : i \in 1..Len(priority_fields)})

\* l.334-338: record.get(header, '') as text
cell_text(record, header) ==
    IF header \in record.keys THEN <<record.type, header>> ELSE <<>>

\* l.330-339: the header row, then one row per record
sheet_rows(recs) ==
    LET headers == _get_headers(recs)
    IN  <<[j \in 1..Len(headers) |-> <<headers[j]>>]>>
        \o [i \in 1..Len(recs) |->
               [j \in 1..Len(headers) |-> cell_text(recs[i], headers[j])]]

\* l.349: the range 'A:Z' ends at column 26
ClearedColumns == 26

\* Mutant: the whole tab is cleared.
clear_range_all(tab) == {}

\* l.346-349: values().clear on '<sheet>'!A:Z
clear_range(tab) == {c \in tab : c.col > ClearedColumns}

\* the non-empty cells of a block of rows placed at A1
CellsOf(block) ==
    {[row |-> x[1], col |-> x[2], text |-> block[x[1]][x[2]]] :
        x \in {y \in (1..Len(block)) \X (1..Len(priority_fields)) :
                 /\ y[2] <= Len(block[y[1]])
                 /\ block[y[1]][y[2]] # <<>>}}

\* l.352-357: values().update at '<sheet>'!A1 overwrites the cells the
\* block covers
update_range(tab, block) ==
    {c \in tab : ~(c.row <= Len(block) /\ c.col <= Len(block[1]))}
    \cup CellsOf(block)

TabFailures == {"none", "clear", "update"}

\* l.320-364: the tab, the calls made and the rows built
write_to_sheet(tab, recs, failing) ==
    IF recs = <<>>
    THEN \* l.322-324
         [tab |-> tab, calls |-> <<>>, rows |-> <<>>]
    ELSE LET block == sheet_rows(recs)
         IN  IF failing = "clear"
             THEN [tab |-> tab, calls |-> <<[api |-> "clear", ok |-> FALSE]>>,
                   rows |-> block]
             ELSE IF failing = "update"
             THEN [tab |-> clear_range(tab),
                   calls |-> <<[api |-> "clear", ok |-> TRUE],
                               [api |-> "update", ok |-> FALSE]>>,
                   rows |-> block]
             ELSE [tab |-> update_range(clear_range(tab), block),
                   calls |-> <<[api |-> "clear", ok |-> TRUE],
                               [api |-> "update", ok |-> TRUE]>>,
                   rows |-> block]

InitSheet ==
    /\ pc = "start"
    /\ TabIdle
    /\ DurationIdle
    /\ LatLngIdle
    /\ TimesIdle
    /\ ParseIdle
    /\ AssocIdle
    /\ OdoIdle
    /\ GeocodeIdle
    /\ stages = NoStages /\ rows = <<>> /\ sheet = SheetIdle
    /\ report_return = NotReturned

\* one run of step 1 of the pipeline (l.1225) on the same spreadsheet
WriteToSheet ==
    /\ writes < MaxWrites
    /\ \E recs \in SeqsUpTo(SheetRecords, MaxSheetRecords), failing \in TabFailures :
          LET w == write_to_sheet(timeline_tab, recs, failing)
          IN  /\ timeline_tab' = w.tab
              /\ tab_calls' = w.calls
              /\ tab_rows' = w.rows
    /\ writes' = writes + 1
    /\ UNCHANGED <<pc, duration_vars, latlng_vars, times_vars, parse_vars, assoc_vars,
                   odo_vars, report_vars, geocode_vars>>

NextSheet == WriteToSheet

SpecSheet == InitSheet /\ [][NextSheet]_vars

\* the last write_to_sheet made both calls and neither failed
WriteSucceeded ==
    /\ Len(tab_calls) = 2
    /\ \A k \in 1..2 : tab_calls[k].ok

\* C27 (as claimed): every write clears the target before writing and never
\* writes without a preceding clear in the same call, so that after a
\* successful write the target holds exactly the new header and data rows
\* and nothing of the prior content; with no records neither call is made.
C27_ClearThenExactRows ==
    /\ \A k \in 1..Len(tab_calls) :
          tab_calls[k].api = "update" => (k > 1 /\ tab_calls[k - 1] = [api |-> "clear", ok |-> TRUE])
    /\ WriteSucceeded => timeline_tab = CellsOf(tab_rows)
    /\ (writes > 0 /\ tab_rows = <<>>) => tab_calls = <<>>

\* what the code does guarantee: the order of the calls, no call without
\* records, and after a successful write the columns A to Z hold exactly the
\* new rows
C27_ClearThenExactRowsAtoZ ==
    /\ \A k \in 1..Len(tab_calls) :
          tab_calls[k].api = "update" => (k > 1 /\ tab_calls[k - 1] = [api |-> "clear", ok |-> TRUE])
    /\ WriteSucceeded =>
          {c \in timeline_tab : c.col <= ClearedColumns}
              = {c \in CellsOf(tab_rows) : c.col <= ClearedColumns}
    /\ (writes > 0 /\ tab_rows = <<>>) => tab_calls = <<>>

-----------------------------------------------------------------------------
(* _format_duration and _extract_total_minutes (l.1112-1169)               *)
(*                                                                         *)
(* The 'duration_minutes' cell read back from the sheet is a text; the     *)
(* trip's 'Duration' is what _format_duration makes of it (l.513), and the *)
(* report row holds what _extract_total_minutes reads from that (l.879).   *)

MaxMinutes == 130
MaxDurationLen == 5

DecimalDigits == <<"0", "1", "2", "3", "4", "5", "6", "7", "8", "9">>

\* the characters of the cells that are not written by write_to_sheet
DurationChars == {"2", "h", "m", "i", "n", " "}

IsDecimalDigit(c) == \E i \in 1..Len(DecimalDigits) : DecimalDigits[i] = c

DecimalDigitVal(c) == (CHOOSE i \in 1..Len(DecimalDigits) : DecimalDigits[i] = c) - 1

\* str(n) / f"{n}" for a non-negative int
RECURSIVE IntText(_)
IntText(n) ==
    IF n < 10 THEN <<DecimalDigits[n + 1]>>
    ELSE Append(IntText(n \div 10), DecimalDigits[(n % 10) + 1])

\* int(s) and float(s) accept the text: blanks around a non-empty run of
\* digits (signs, points and exponents do not occur in the cells modelled)
NumberOk(s) ==
    LET t == Strip(s)
    IN  t # <<>> /\ \A i \in 1..Len(t) : IsDecimalDigit(t[i])

RECURSIVE DecimalVal(_)
DecimalVal(t) ==
    IF t = <<>> THEN 0
    ELSE 10 * DecimalVal(SubSeq(t, 1, Len(t) - 1)) + DecimalDigitVal(t[Len(t)])

\* the number int(s) / float(s) returns
NumberVal(s) == DecimalVal(Strip(s))

\* str.replace(sub, ''): remove the occurrences of sub, left to right
RECURSIVE RemoveAll(_, _)
RemoveAll(s, sub) ==
    IF Len(s) < Len(sub) THEN s
    ELSE IF SubSeq(s, 1, Len(sub)) = sub
    THEN RemoveAll(SubSeq(s, Len(sub) + 1, Len(s)), sub)
    ELSE <<Head(s)>> \o RemoveAll(Tail(s), sub)

Min == <<"m", "i", "n">>

\* Mutant: the minutes are not reduced modulo 60.
mins_of_whole(minutes) == minutes

\* l.1124: mins = int(minutes % 60)
mins_of(minutes) == minutes % 60

\* l.1112-1127
_format_duration(duration) ==
    IF duration = <<>> THEN <<>>
    ELSE IF NumberOk(duration)
    THEN LET minutes == NumberVal(duration)
         IN  IF minutes < 60
             THEN IntText(minutes) \o <<" ">> \o Min
             ELSE IntText(minutes \div 60) \o <<"h", " ">>
                  \o IntText(mins_of(minutes)) \o Min
    ELSE \* l.1126-1127: float() raised
         duration

\* l.1141-1169; an exception raised in the try block makes the result 0
_extract_total_minutes(duration) ==
    IF duration = <<>> THEN 0
    ELSE LET t == Strip(Lower(duration))
         IN  IF Contains(t, <<"h">>)
             THEN LET parts == Split(t, "h")
                      min_part == Strip(RemoveAll(parts[2], Min))
                  IN  IF ~NumberOk(parts[1]) THEN 0
                      ELSE IF min_part = <<>> THEN NumberVal(parts[1]) * 60
                      ELSE IF ~NumberOk(min_part) THEN 0
                      ELSE NumberVal(parts[1]) * 60 + NumberVal(min_part)
             ELSE LET min_part == Strip(RemoveAll(t, Min))
                  IN  IF min_part = <<>> THEN 0
                      ELSE IF ~NumberOk(min_part) THEN 0
                      ELSE NumberVal(min_part)

\* the cells write_to_sheet wrote for whole durations, and other texts
DurationCells ==
    {IntText(m) : m \in 0..MaxMinutes} \cup SeqsUpTo(DurationChars, MaxDurationLen)

InitDuration ==
    /\ pc = "start"
    /\ duration_cell \in DurationCells
    /\ duration_str = <<>>
    /\ total_minutes = 0
    /\ TabIdle
    /\ LatLngIdle
    /\ TimesIdle
    /\ ParseIdle
    /\ AssocIdle
    /\ OdoIdle
    /\ GeocodeIdle
    /\ stages = NoStages /\ rows = <<>> /\ sheet = SheetIdle
    /\ report_return = NotReturned

\* l.513: 'Duration': self._format_duration(record.get('duration_minutes', ''))
FormatDuration ==
    /\ pc = "start"
    /\ duration_str' = _format_duration(duration_cell)
    /\ pc' = "formatted"
    /\ UNCHANGED <<duration_cell, total_minutes, tab_vars, latlng_vars, times_vars,
                   parse_vars, assoc_vars, odo_vars, report_vars, geocode_vars>>

\* l.879: duration_minutes = self._extract_total_minutes(entry.get('Duration', ''))
ExtractTotalMinutes ==
    /\ pc = "formatted"
    /\ total_minutes' = _extract_total_minutes(duration_str)
    /\ pc' = "done"
    /\ UNCHANGED <<duration_cell, duration_str, tab_vars, latlng_vars, times_vars,
                   parse_vars, assoc_vars, odo_vars, report_vars, geocode_vars>>

NextDuration == FormatDuration \/ ExtractTotalMinutes

SpecDuration == InitDuration /\ [][NextDuration]_vars

-----------------------------------------------------------------------------
(* The duration of a report row (l.513, l.879)                             *)

\* the cell holds a non-negative whole number of minutes as str() writes it
WholeMinutes(m) == duration_cell = IntText(m)

IsNumeral(t) == t # <<>> /\ \A i \in 1..Len(t) : IsDecimalDigit(t[i])

IsBlank(t) == \A i \in 1..Len(t) : t[i] = " "

\* digits, optional blanks, optional 'min': '45 min', '45min', '45'
MinutesText(t) ==
    \E i \in 1..Len(t), j \in 0..Len(t) :
        /\ i <= j
        /\ IsNumeral(SubSeq(t, 1, i))
        /\ IsBlank(SubSeq(t, i + 1, j))
        /\ SubSeq(t, j + 1, Len(t)) \in {<<>>, Min}

\* a duration in one of the formats the code writes or names, in any case
\* and with blanks around it: minutes alone, or hours, 'h' and optional
\* minutes ('1h 30min', '1h 30 min', '1h')
WellFormedDuration(str) ==
    LET t == Strip(Lower(str))
    IN  \/ MinutesText(t)
        \/ \E k \in 1..Len(t) :
              /\ t[k] = "h"
              /\ IsNumeral(Strip(SubSeq(t, 1, k - 1)))
              /\ LET rest == Strip(SubSeq(t, k + 1, Len(t)))
                 IN  rest = <<>> \/ MinutesText(rest)

\* C28 (as claimed): for every non-negative whole number of minutes m,
\* formatting m and converting back returns m, below and at or above 60;
\* an empty or malformed duration string yields 0.
C28_DurationRoundTrip ==
    pc = "done" =>
        /\ \A m \in 0..(MaxMinutes + 1) : WholeMinutes(m) => total_minutes = m
        /\ (duration_str = <<>> \/ ~WellFormedDuration(duration_str)) =>
              total_minutes = 0

\* the text before the first 'h', and the text between it and the next 'h'
\* (the whole text when there is no 'h') with every 'min' removed
HourText(str) == Strip(Split(Strip(Lower(str)), "h")[1])
MinuteText(str) ==
    LET t == Strip(Lower(str))
    IN  Strip(RemoveAll(IF Contains(t, <<"h">>) THEN Split(t, "h")[2] ELSE t, Min))

HasHour(str) == Contains(Lower(str), <<"h">>)

\* no number can be read from the string
Unreadable(str) ==
    \/ HasHour(str) /\ ~IsNumeral(HourText(str))
    \/ MinuteText(str) # <<>> /\ ~IsNumeral(MinuteText(str))

\* C28 (amended): the round trip holds for every non-negative whole number
\* of minutes; an empty string yields 0, and so does every string whose
\* hour text or minute text is not a whole number; any other string, well
\* formed or not, yields 60 times its hour number plus its minute number.
C28_DurationRoundTripOrRead ==
    pc = "done" =>
        /\ \A m \in 0..(MaxMinutes + 1) : WholeMinutes(m) => total_minutes = m
        /\ (duration_str = <<>> \/ Unreadable(duration_str)) => total_minutes = 0
        /\ (duration_str # <<>> /\ ~Unreadable(duration_str)) =>
              total_minutes =
                  (IF HasHour(duration_str) THEN 60 * DecimalVal(HourText(duration_str)) ELSE 0)
                  + DecimalVal(MinuteText(duration_str))

\* 125 minutes are shown as '2h 5min' and read back as 125
C28_Witness ==
    /\ pc = "done"
    /\ duration_cell = <<"1", "2", "5">>
    /\ duration_str = <<"2", "h", " ", "5", "m", "i", "n">>
    /\ total_minutes = 125

\* a text in none of the formats is read as two hours
C28_MalformedRead ==
    /\ pc = "done"
    /\ duration_str = <<"2", "h", "h">>
    /\ total_minutes = 120

====
